---- MODULE Spec2Model ----
(***************************************************************************)
(* Retrieval helpers of cssi-claude-skills: the Dimensions helper          *)
(* (skills/dimensions/dimensions_helper.py) and the OpenAlex helper        *)
(* (skills/openalex/openalex_helper.py).                                   *)
(*                                                                         *)
(* Part A  pagination: query_iterative (offset/skip) and                   *)
(*         fetch_all_with_cursor (cursor).                                 *)
(* Part B  schema validation: the _valid_fields_cache of both helpers and  *)
(*         the validate_* functions.                                       *)
(* Part C  commands: aggregate_query, group_by, search_works and the two   *)
(*         main() entry points.                                            *)
(* Part D  persistence: generate_filename, clean_for_parquet and           *)
(*         save_results of both helpers.                                   *)
(*                                                                         *)
(* Part E  the rate limiter of the OpenAlex helper: rate_limit and         *)
(*         api_request, called by one thread or by several.                *)
(* Part F  RichProgressTracker and create_parallel_processor               *)
(*         (skills/logging-refiner/rich_logger.py).                        *)
(* Part G  threads that validate against the Dimensions schema cache.      *)
(*                                                                         *)
(* In parts A to D the caller is single-threaded: one operation runs at a  *)
(* time.                                                                   *)
(* A batch of n records served as page k is written [page |-> k, n |-> n]; *)
(* all_results is the sequence of the batches that were extend()ed to it.  *)
(***************************************************************************)
EXTENDS Integers, Sequences, FiniteSets, TLC

VARIABLES
    qi,          \* frame of query_iterative: its arguments, locals and return value
    dsl_server,  \* what the Dimensions server did during the current query_iterative
    fc,          \* frame of fetch_all_with_cursor
    oa_server,   \* what the OpenAlex server did during the current fetch_all_with_cursor
    dimensions_valid_fields_cache,  \* _valid_fields_cache of dimensions_helper.py
    openalex_valid_fields_cache,    \* _valid_fields_cache of openalex_helper.py
    op,                \* the last validate_* call: arguments, network calls, outcome
    validated,         \* the (kind, source) keys validated so far in this process
    discovery_failed,  \* the keys whose schema discovery has failed at least once
    proc,              \* a command-line run of a helper: main() and its exit
    saved,             \* the last save_results call: arguments, I/O outcomes, files
    named,             \* the last generate_filename call: arguments and result
    now,               \* time.time(), in milliseconds
    last_request_time, \* the global last_request_time of openalex_helper.py
    limiter,           \* the threads in rate_limit / api_request and what left the process
    tracker,           \* the fields of one RichProgressTracker
    reader,            \* the thread that reads the tracker's counts and summary
    pool,              \* create_parallel_processor: its tasks and its main thread
    checkers           \* the threads in validate_aggregation_metrics (Dimensions)

pag_vars == <<qi, dsl_server, fc, oa_server>>
schema_vars == <<dimensions_valid_fields_cache, openalex_valid_fields_cache,
                 op, validated, discovery_failed>>
persist_vars == <<saved, named>>
limiter_vars == <<now, last_request_time, limiter>>
tracker_vars == <<tracker, reader, pool>>
par_vars == <<limiter_vars, tracker_vars, checkers>>
vars == <<pag_vars, schema_vars, proc, persist_vars, par_vars>>

----------------------------------------------------------------------------
(* Python values *)

\* Python's None, where the other values of the variable are naturals.
None == 0 - 1

\* bool(x) of an optional count: None and 0 are falsy ("if max_results:").
Truthy(x) == x /= None /\ x /= 0

Min(a, b) == IF a <= b THEN a ELSE b
Max(a, b) == IF a >= b THEN a ELSE b

RECURSIVE Count(_)
\* len(all_results): the records of all the batches.
Count(batches) ==
    IF batches = <<>> THEN 0 ELSE Head(batches).n + Count(Tail(batches))

----------------------------------------------------------------------------
(* Python strings: a str is the sequence of its characters *)

\* s[a:b] with 1-based inclusive bounds, '' when the range is empty.
Slice(s, a, b) == IF a > b THEN <<>> ELSE SubSeq(s, a, b)

\* "ch in s" for a character.
HasChar(s, ch) == \E i \in 1..Len(s) : s[i] = ch

\* "sub in s" for a string: sub occurs in s as a substring.
IsSubstring(sub, s) ==
    \E i \in 0..(Len(s) - Len(sub)) : Slice(s, i + 1, i + Len(sub)) = sub

\* Index of the first ch in s, 0 when there is none.
Find(s, ch) ==
    IF HasChar(s, ch) THEN CHOOSE i \in 1..Len(s) : s[i] = ch /\ \A j \in 1..(i - 1) : s[j] /= ch
    ELSE 0

RECURSIVE Split(_, _)
\* s.split(ch): the pieces of s between the occurrences of ch ('' gives ['']).
Split(s, ch) ==
    LET i == Find(s, ch)
    IN  IF i = 0 THEN <<s>>
        ELSE <<Slice(s, 1, i - 1)>> \o Split(Slice(s, i + 1, Len(s)), ch)

RECURSIVE LStrip(_)
LStrip(s) == IF s /= <<>> /\ Head(s) = " " THEN LStrip(Tail(s)) ELSE s

RECURSIVE RStrip(_)
RStrip(s) == IF s /= <<>> /\ s[Len(s)] = " " THEN RStrip(Slice(s, 1, Len(s) - 1)) ELSE s

\* s.strip(): s without its leading and trailing blanks.
Strip(s) == RStrip(LStrip(s))

\* The characters of the model's strings, in code-point order.
Alphabet == <<" ", "(", ")", ",", ".", "_",
              "a", "b", "c", "d", "e", "g", "i", "m", "n", "o", "s", "t", "u", "v", "x">>

Rank(ch) == CHOOSE i \in 1..Len(Alphabet) : Alphabet[i] = ch

RECURSIVE StrLess(_, _)
\* a < b for two strings.
StrLess(a, b) ==
    IF b = <<>> THEN FALSE
    ELSE IF a = <<>> THEN TRUE
    ELSE IF Head(a) = Head(b) THEN StrLess(Tail(a), Tail(b))
    ELSE Rank(Head(a)) < Rank(Head(b))

RECURSIVE Sorted(_)
\* sorted(S) for a set of strings.
Sorted(S) ==
    IF S = {} THEN <<>>
    ELSE LET least == CHOOSE x \in S : \A y \in S \ {x} : StrLess(x, y)
         IN  <<least>> \o Sorted(S \ {least})

\* seq[:n]
Take(seq, n) == Slice(seq, 1, Min(n, Len(seq)))

\* The elements of a list.
Range(seq) == {seq[i] : i \in 1..Len(seq)}

----------------------------------------------------------------------------
(* Program constants and model bounds *)

API_LIMIT == 1000     \* batch_size = min(batch_size, 1000)
PER_PAGE == 200       \* params['per_page'] = 200

MaxTotal == 6         \* totals a server reports: 0 .. MaxTotal half-pages
MaxCeil == 5          \* ceilings a caller gives: 0 .. MaxCeil half-pages
MaxPages == 4         \* page requests of one cursor retrieval that are explored

\* Counts are drawn in half-pages of the mode's page size, plus 1.
Totals(page) == {k * (page \div 2) : k \in 0..MaxTotal} \cup {1}
Ceilings(page) == {None, 1} \cup {k * (page \div 2) : k \in 0..MaxCeil}
PageSizes(limit) == {0, 1, limit \div 2, limit}
BatchSizes == {API_LIMIT \div 2, API_LIMIT, 2 * API_LIMIT}

----------------------------------------------------------------------------
(* Part A.1  query_iterative (offset mode) *)

qi_idle ==
    [pc |-> "idle", max_results |-> None, batch_size_arg |-> API_LIMIT,
     batch_size |-> API_LIMIT, all_results |-> <<>>, skip |-> 0, total_count |-> None, page_num |-> 0,
     requests |-> <<>>, raised |-> FALSE,
     result |-> [total |-> None, retrieved |-> 0, data |-> <<>>]]

server_idle ==
    [available |-> 0, served |-> <<>>, failed_at |-> 0, honest |-> TRUE,
     first_total |-> None, total_varied |-> FALSE]

\* Lines 534-582: the state on entry of the while loop.
qi_enter(max_results, batch_size) ==
    [qi_idle EXCEPT !.pc = "loop", !.max_results = max_results,
                    !.batch_size_arg = batch_size,
                    !.batch_size = Min(batch_size, API_LIMIT)]

\* Lines 621-663: the loop was left; the function returns its dict.
qi_return(f) ==
    [f EXCEPT !.pc = "done",
              !.result = [total |-> f.total_count,
                          retrieved |-> Count(f.all_results),
                          data |-> f.all_results]]

\* Line 585: the query of one iteration, "... limit {batch_size} skip {skip}".
qi_request(f) == [limit |-> f.batch_size, skip |-> f.skip]

\* Lines 592-596: total_count is set by the first page that is read.
qi_total_count(f, resp) ==
    IF f.total_count = None
    THEN LET count_total == IF resp.count_total = None THEN 0 ELSE resp.count_total
         IN  IF Truthy(f.max_results) THEN Min(count_total, f.max_results)
             ELSE count_total
    ELSE f.total_count

\* Lines 610-615: the three stop tests after a batch was added.
qi_stop(f, all_results, total_count, n) ==
    \/ Count(all_results) >= total_count
    \/ Truthy(f.max_results) /\ Count(all_results) >= f.max_results
    \/ n < f.batch_size

\* A handler that lets the exception escape: nothing is returned.
qi_except_reraise(f) == [f EXCEPT !.pc = "done", !.raised = TRUE]

\* Lines 617-619: "except Exception": warn and leave the loop.
qi_except(f) == qi_return(f)

\* Lines 583-619: one iteration of the while loop on the response resp.
qi_iteration(f, resp) ==
    LET f1 == [f EXCEPT !.page_num = @ + 1, !.requests = Append(@, qi_request(f))]
    IN  IF resp.kind = "error"
        THEN qi_except(f1)
        ELSE LET total_count == qi_total_count(f, resp)
                 f2 == [f1 EXCEPT !.total_count = total_count]
             IN  IF resp.n = 0
                 THEN qi_return(f2)                          \* if not batch_data: break
                 ELSE LET all_results ==
                              Append(f.all_results, [page |-> f1.page_num, n |-> resp.n])
                          f3 == [f2 EXCEPT !.all_results = all_results,
                                           !.skip = @ + f.batch_size]
                      IN  IF qi_stop(f, all_results, total_count, resp.n)
                          THEN qi_return(f3)
                          ELSE f3

\* What _get_client().query(paginated_query) can do: raise, or return up to
\* `limit` records with a count_total (absent: None).
DslResponses(limit) ==
    {[kind |-> "error", n |-> 0, count_total |-> None]} \cup
    {[kind |-> "ok", n |-> n, count_total |-> t] :
        n \in PageSizes(limit), t \in Totals(API_LIMIT) \cup {None}}

\* The response of a server that holds `available` matching records and has no fault.
HonestDsl(available, req) ==
    [kind |-> "ok", n |-> Min(req.limit, Max(0, available - req.skip)),
     count_total |-> available]

\* The server's side of one page exchange: the pages it served, the page
\* whose request failed, whether every response was the faultless one, the
\* total count the first page reported and whether a later page reported
\* another one.
Serve(s, page_num, resp, total, next_cursor, honest_resp) ==
    [s EXCEPT !.served = IF resp.kind = "ok"
                         THEN Append(@, [page |-> page_num, n |-> resp.n,
                                         next_cursor |-> next_cursor])
                         ELSE @,
              !.failed_at = IF resp.kind = "error" THEN page_num ELSE @,
              !.honest = @ /\ resp = honest_resp,
              !.first_total = IF resp.kind = "ok" /\ s.served = <<>> THEN total ELSE @,
              !.total_varied = \/ @
                               \/ /\ resp.kind = "ok"
                                  /\ s.served /= <<>>
                                  /\ total /= s.first_total]

----------------------------------------------------------------------------
(* Part A.2  fetch_all_with_cursor (cursor mode) *)

\* Cursor values: '*' (the initial sentinel), a token of the server, the
\* empty string, or no next_cursor in meta (None).
Star == [kind |-> "star", id |-> 0]
Token(k) == [kind |-> "token", id |-> k]
EmptyCursor == [kind |-> "empty", id |-> 0]
NoCursor == [kind |-> "none", id |-> 0]

\* "if not next_cursor": None and '' are falsy.
CursorTruthy(c) == c.kind \in {"star", "token"}

fc_idle ==
    [pc |-> "idle", max_results |-> None, cursor |-> Star, per_page |-> PER_PAGE,
     all_results |-> <<>>, total_count |-> None, page_num |-> 0,
     requests |-> <<>>, raised |-> FALSE,
     result |-> [total |-> None, retrieved |-> 0, data |-> <<>>]]

\* Lines 336-342: the state on entry of the while loop.
fc_enter(max_results) == [fc_idle EXCEPT !.pc = "loop", !.max_results = max_results]

\* Lines 375-379: the loop was left; the function returns its dict.
fc_return(f) ==
    [f EXCEPT !.pc = "done",
              !.result = [total |-> f.total_count,
                          retrieved |-> Count(f.all_results),
                          data |-> f.all_results]]

\* Line 346: the params of one iteration.
fc_request(f) == [cursor |-> f.cursor, per_page |-> f.per_page]

\* Lines 350-353: total_count is set by the first page that is read.
fc_total_count(f, resp) ==
    IF f.total_count = None
    THEN LET count == IF resp.count = None THEN 0 ELSE resp.count  \* meta.get('count', 0)
         IN  IF Truthy(f.max_results) THEN Min(count, f.max_results) ELSE count
    ELSE f.total_count

\* A loop that goes on with whatever meta.get('next_cursor') gave.
fc_continue_unchecked(f, next_cursor) == [f EXCEPT !.cursor = next_cursor]

\* Lines 365-369: no next_cursor, no next page.
fc_continue(f, next_cursor) ==
    IF CursorTruthy(next_cursor)
    THEN [f EXCEPT !.cursor = next_cursor]
    ELSE fc_return(f)

\* Lines 371-373: "except Exception": print and leave the loop.
fc_except(f) == fc_return(f)

\* Lines 344-373: one iteration of the while loop on the response resp.
fc_iteration(f, resp) ==
    LET f1 == [f EXCEPT !.page_num = @ + 1, !.requests = Append(@, fc_request(f))]
    IN  IF resp.kind = "error"
        THEN fc_except(f1)
        ELSE LET total_count == fc_total_count(f, resp)
                 f2 == [f1 EXCEPT !.total_count = total_count]
             IN  IF resp.n = 0
                 THEN fc_return(f2)                          \* if not results: break
                 ELSE LET all_results ==
                              Append(f.all_results, [page |-> f1.page_num, n |-> resp.n])
                          f3 == [f2 EXCEPT !.all_results = all_results]
                      IN  IF Count(all_results) >= total_count
                          THEN fc_return(f3)
                          ELSE fc_continue(f3, resp.next_cursor)

\* What api_request(endpoint, params) followed by the two response.get can
\* do: raise, or give up to per_page results with meta.count (absent: None)
\* and meta.next_cursor (a fresh token, '' or absent).
OaResponses(per_page, page_num) ==
    {[kind |-> "error", n |-> 0, count |-> None, next_cursor |-> NoCursor]} \cup
    {[kind |-> "ok", n |-> n, count |-> t, next_cursor |-> c] :
        n \in PageSizes(per_page), t \in Totals(PER_PAGE) \cup {None},
        c \in {Token(page_num), EmptyCursor, NoCursor}}

----------------------------------------------------------------------------
(* Part A.3  the calls and the page exchanges *)

Busy == qi.pc = "loop" \/ fc.pc = "loop"

query_iterative_call ==
    /\ ~Busy
    /\ \E max_results \in Ceilings(API_LIMIT), batch_size \in BatchSizes,
          available \in Totals(API_LIMIT) :
          /\ qi' = qi_enter(max_results, batch_size)
          /\ dsl_server' = [server_idle EXCEPT !.available = available]
    /\ fc' = fc_idle /\ oa_server' = server_idle    \* the previous result is gone
    /\ UNCHANGED <<schema_vars, proc, persist_vars, par_vars>>

\* One iteration of the loop of query_iterative against the server.
query_iterative_step ==
    /\ qi.pc = "loop"
    /\ \E resp \in DslResponses(qi.batch_size) :
          /\ qi' = qi_iteration(qi, resp)
          /\ dsl_server' = Serve(dsl_server, qi.page_num + 1, resp, resp.count_total, NoCursor,
                                 HonestDsl(dsl_server.available, qi_request(qi)))
    /\ UNCHANGED <<fc, oa_server>>

query_iterative_page ==
    /\ query_iterative_step
    /\ UNCHANGED <<schema_vars, proc, persist_vars, par_vars>>

fetch_all_with_cursor_call ==
    /\ ~Busy
    /\ \E max_results \in Ceilings(PER_PAGE) :
          fc' = fc_enter(max_results)
    /\ oa_server' = server_idle
    /\ qi' = qi_idle /\ dsl_server' = server_idle   \* the previous result is gone
    /\ UNCHANGED <<schema_vars, proc, persist_vars, par_vars>>

\* One iteration of the loop of fetch_all_with_cursor against the server.
fetch_all_with_cursor_step ==
    /\ fc.pc = "loop"
    /\ fc.page_num < MaxPages
    /\ \E resp \in OaResponses(fc.per_page, fc.page_num + 1) :
          /\ fc' = fc_iteration(fc, resp)
          /\ oa_server' = Serve(oa_server, fc.page_num + 1, resp, resp.count,
                                resp.next_cursor, resp)
    /\ UNCHANGED <<qi, dsl_server>>

fetch_all_with_cursor_page ==
    /\ fetch_all_with_cursor_step
    /\ UNCHANGED <<schema_vars, proc, persist_vars, par_vars>>

----------------------------------------------------------------------------
(* Part B.1  the Dimensions schema cache and its validators *)

\* [x.strip() for x in list]
StripAll(seq) == [i \in 1..Len(seq) |-> Strip(seq[i])]

\* dict operations on a dict modelled as a function.
EmptyDict == [k \in {} |-> {}]
Put(d, k, v) == [x \in DOMAIN d \cup {k} |-> IF x = k THEN v ELSE d[x]]
Get(d, k, default) == IF k \in DOMAIN d THEN d[k] ELSE default

\* A str argument that is None.
NoStr == <<"None">>

\* "if not s" for an optional str: None and '' are falsy.
Falsy(s) == s = NoStr \/ s = <<>>

SUGGESTION_LIMIT == 5     \* [...][:5]
FACET_LIST_LIMIT == 15    \* sorted(valid_facets)[:15]
SELECT_LIST_LIMIT == 20   \* sorted(valid_fields)[:20]

\* The aggregate functions validate_aggregation_metrics lets through.
AGGREGATE_FUNCTIONS ==
    { <<"s","u","m">>, <<"a","v","g">>, <<"c","o","u","n","t">>,
      <<"m","i","n">>, <<"m","a","x">>, <<"m","e","d","i","a","n">> }

COUNT == <<"c","o","u","n","t">>

\* The error message of a ValueError, by its parts.
NoMsg == [kind |-> "none", source |-> "", offending |-> <<>>, suggestions |-> <<>>,
          lists_valid |-> FALSE, valid_list |-> <<>>]

\* What a handler has done so far: the cache it leaves, the network calls it
\* made, the sources whose discovery failed, and the exception it raised.
Run(cache) ==
    [cache |-> cache, calls |-> <<>>, failed |-> {}, raised |-> FALSE, msg |-> NoMsg]

\* raise ValueError(error_msg)
Raise(r, msg) == [r EXCEPT !.raised = TRUE, !.msg = msg]

DescribeCall(source) == [to |-> "dimensions", what |-> "describe", source |-> source]

\* Lines 238-257: the three sets read off a describe result.
describe_facets(resp) == {f.name : f \in {g \in resp.fields : g.is_facet}}
describe_filters(resp) == {f.name : f \in {g \in resp.fields : g.is_filter}}
describe_metrics(resp) ==
    {m.name : m \in {x \in resp.metrics : x.type \in {"dict", "str"} /\ x.name /= <<>>}}

\* Lines 226-266: _fetch_source_metadata(source) on the describe response resp.
fetch_source_metadata(r, source, resp) ==
    IF source \in DOMAIN r.cache.facets
    THEN r                                                    \* already cached
    ELSE LET called == [r EXCEPT !.calls = Append(@, DescribeCall(source))]
         IN  IF resp.kind = "error"
             THEN [called EXCEPT !.failed = @ \cup {<<"describe", source>>}]  \* except: warn
             ELSE [called EXCEPT
                      !.cache.facets = Put(@, source, describe_facets(resp)),
                      !.cache.filters = Put(@, source, describe_filters(resp)),
                      !.cache.metrics = Put(@, source, describe_metrics(resp))]

\* [f for f in valid if base in f][:5], the set being iterated in `order`.
similar_fields(valid, base, order) ==
    Take(SelectSeq(order, LAMBDA f : f \in valid /\ IsSubstring(base, f)), SUGGESTION_LIMIT)

\* Lines 281-290: the ValueError of validate_facet.
facet_error(source, facet, valid_facets, order) ==
    [kind |-> "Invalid facet", source |-> source, offending |-> <<facet>>,
     suggestions |-> similar_fields(valid_facets, Split(facet, "_")[1], order),
     lists_valid |-> TRUE,
     valid_list |-> Take(Sorted(valid_facets), FACET_LIST_LIMIT)]

\* Lines 269-292: validate_facet(source, facet).
validate_facet(r0, source, facet, resp, order) ==
    LET r == fetch_source_metadata(r0, source, resp)
        valid_facets == Get(r.cache.facets, source, {})
    IN  IF valid_facets = {} THEN r         \* let the API handle validation
        ELSE IF facet \notin valid_facets
        THEN Raise(r, facet_error(source, facet, valid_facets, order))
        ELSE r

\* A check that knows no unconditional 'count'.
invalid_metric_without_count(metric, valid_metrics) ==
    IF HasChar(metric, "(")
    THEN Split(metric, "(")[1] \notin AGGREGATE_FUNCTIONS
    ELSE metric \notin valid_metrics

\* Lines 316-325: is this element of the metrics list invalid?
invalid_metric(metric, valid_metrics) ==
    IF HasChar(metric, "(")
    THEN Split(metric, "(")[1] \notin AGGREGATE_FUNCTIONS
    ELSE metric \notin valid_metrics /\ metric /= COUNT

\* Lines 327-331: the ValueError of validate_aggregation_metrics.
metrics_error(source, invalid_metrics, valid_metrics) ==
    [kind |-> "Invalid metric(s)", source |-> source, offending |-> invalid_metrics,
     suggestions |-> <<>>, lists_valid |-> TRUE, valid_list |-> Sorted(valid_metrics)]

\* Lines 304-333: the metrics are checked against the cache that
\* _fetch_source_metadata left in r.
metrics_verdict(r, source, metrics_str) ==
    LET valid_metrics == Get(r.cache.metrics, source, {})
        metrics == StripAll(Split(metrics_str, ","))
        invalid_metrics == SelectSeq(metrics, LAMBDA m : invalid_metric(m, valid_metrics))
    IN  IF valid_metrics = {} THEN r        \* let the API handle validation
        ELSE IF invalid_metrics /= <<>>
        THEN Raise(r, metrics_error(source, invalid_metrics, valid_metrics))
        ELSE r

\* Lines 295-333: validate_aggregation_metrics(source, metrics_str).
validate_aggregation_metrics(r0, source, metrics_str, resp) ==
    IF Falsy(metrics_str) THEN r0
    ELSE metrics_verdict(fetch_source_metadata(r0, source, resp), source, metrics_str)

----------------------------------------------------------------------------
(* Part B.2  the OpenAlex schema cache and its validators *)

ProbeCall(what, entity_type) == [to |-> "openalex", what |-> what, source |-> entity_type]

\* Lines 42-70 and 75-102: _fetch_valid_group_by_fields / _fetch_valid_select_fields
\* on the probe response resp; `what` is 'group_by' or 'select'. The result
\* is the run and the set that is returned.
fetch_valid_fields(r, what, entity_type, resp) ==
    IF entity_type \in DOMAIN r.cache[what]
    THEN [run |-> r, valid_fields |-> r.cache[what][entity_type]]
    ELSE LET called == [r EXCEPT !.calls = Append(@, ProbeCall(what, entity_type))]
         IN  IF resp.kind = "fields"       \* status 400 and 'Valid fields are ...'
             THEN [run |-> [called EXCEPT !.cache[what] = Put(@, entity_type, resp.fields)],
                   valid_fields |-> resp.fields]
             ELSE \* an exception, another status, or no list in the message
                  [run |-> [called EXCEPT !.failed = @ \cup {<<what, entity_type>>}],
                   valid_fields |-> {}]

\* Lines 116-125: the ValueError of validate_group_by_field.
group_by_error(entity_type, group_field, valid_fields, order) ==
    [kind |-> "Invalid group_by field", source |-> entity_type,
     offending |-> <<group_field>>,
     suggestions |-> similar_fields(valid_fields, Split(group_field, ".")[1], order),
     lists_valid |-> FALSE, valid_list |-> <<>>]

\* Lines 105-125: validate_group_by_field(entity_type, group_field).
validate_group_by_field(r0, entity_type, group_field, resp, order) ==
    LET fetched == fetch_valid_fields(r0, "group_by", entity_type, resp)
        r == fetched.run
        valid_fields == fetched.valid_fields
    IN  IF valid_fields = {} THEN r         \* let the API handle validation
        ELSE IF group_field \notin valid_fields
        THEN Raise(r, group_by_error(entity_type, group_field, valid_fields, order))
        ELSE r

\* Lines 149-153: the ValueError of validate_select_fields.
select_error(entity_type, invalid_fields, valid_fields) ==
    [kind |-> "Invalid select field(s)", source |-> entity_type,
     offending |-> invalid_fields, suggestions |-> <<>>,
     lists_valid |-> TRUE,
     valid_list |-> Take(Sorted(valid_fields), SELECT_LIST_LIMIT)]

\* A validate_select_fields that fetches the valid fields before it looks
\* at select_str.
validate_select_fields_fetch_first(r0, entity_type, select_str, resp) ==
    fetch_valid_fields(r0, "select", entity_type, resp).run

\* Lines 128-153: validate_select_fields(entity_type, select_str).
validate_select_fields(r0, entity_type, select_str, resp) ==
    IF Falsy(select_str) THEN r0
    ELSE
    LET fetched == fetch_valid_fields(r0, "select", entity_type, resp)
        r == fetched.run
        valid_fields == fetched.valid_fields
        fields == StripAll(Split(select_str, ","))
        invalid_fields == SelectSeq(fields, LAMBDA f : f /= <<>> /\ f \notin valid_fields)
    IN  IF valid_fields = {} THEN r         \* let the API handle validation
        ELSE IF invalid_fields /= <<>>
        THEN Raise(r, select_error(entity_type, invalid_fields, valid_fields))
        ELSE r

----------------------------------------------------------------------------
(* Part B.3  the sources, schemas and arguments that are explored *)

Sources == {"publications"}                \* Dimensions sources
Entities == {"works"}                      \* OpenAlex entity types

s_date == <<"d","a","t","e">>
s_id == <<"i","d">>
s_un == <<"u","n">>
s_x == <<"x">>
s_sum_a == <<"s","u","m","_","a">>
Un(sep, ch) == <<"u","n", sep, ch>>

\* Field names a schema may hold, and an iteration order of a set of them.
FieldNames ==
    {s_date, s_id, s_un, COUNT, s_sum_a} \cup {Un(sep, ch) : sep \in {"_", "."},
                                               ch \in {"a","b","c","d","e","g"}}
Reverse(seq) == [i \in 1..Len(seq) |-> seq[Len(seq) + 1 - i]]
Orders == {Sorted(FieldNames), Reverse(Sorted(FieldNames))}

Field(name, is_facet, is_filter) ==
    [name |-> name, is_facet |-> is_facet, is_filter |-> is_filter]

\* What "describe source X" can give: an exception, a schema without any
\* field or metric, or a schema with eight facets and two metrics ('count'
\* is not one of them).
DescribeError == [kind |-> "error", fields |-> {}, metrics |-> {}]
DescribeEmpty == [kind |-> "ok", fields |-> {}, metrics |-> {}]
DescribeFull ==
    [kind |-> "ok",
     fields |-> {Field(s_date, TRUE, TRUE), Field(s_id, FALSE, TRUE), Field(s_un, TRUE, FALSE)}
                \cup {Field(Un("_", ch), TRUE, FALSE) : ch \in {"a","b","c","d","e","g"}},
     metrics |-> {[type |-> "dict", name |-> s_date], [type |-> "str", name |-> s_sum_a],
                  [type |-> "dict", name |-> <<>>], [type |-> "other", name |-> s_x]}]
DescribeResponses == {DescribeError, DescribeEmpty, DescribeFull}

FacetArgs == {s_date, s_id, Un("_", "x"), s_x}

Str_sum_x == <<"s","u","m","(","x",")">>
Str_sum_open == <<"s","u","m","(","x">>
Str_sum_blank == <<"s","u","m"," ","(","x",")">>
Str_bad_x == <<"b","a","d","(","x",")">>
MetricArgs ==
    { NoStr, <<>>, COUNT, s_sum_a, s_x, Str_sum_x, Str_sum_open, Str_sum_blank, Str_bad_x,
      <<"m","e","d","i","a","n","(",")">>,
      <<"(","x",")">>,
      <<" ">> \o s_sum_a \o <<" ",","," ">> \o COUNT,
      COUNT \o <<",">> \o s_x,
      s_x \o <<",">> \o Str_bad_x \o <<",">> \o Str_sum_x,
      COUNT \o <<",">> }

\* What the probe request can give: an exception, a status other than 400,
\* a 400 whose message lists no fields, or a 400 that lists `fields`.
ProbeResponses ==
    {[kind |-> k, fields |-> {}] : k \in {"error", "status", "no_phrase", "fields"}} \cup
    {[kind |-> "fields", fields |-> {s_date, s_id, s_un, Un(".", "a"), Un(".", "b")}]}

GroupArgs == {s_id, Un(".", "x"), s_x}
SelectArgs ==
    { NoStr, <<>>, s_id, s_x, s_id \o <<",">> \o Un(".", "a"),
      s_x \o <<","," ">> \o s_id \o <<",">> \o Un(".", "x"),
      s_id \o <<",",",">>, <<",">> }

----------------------------------------------------------------------------
(* Part B.4  calls of the validators, in any order, in one process *)

DimensionsCacheEmpty == [facets |-> EmptyDict, filters |-> EmptyDict, metrics |-> EmptyDict]
OpenAlexCacheEmpty == [group_by |-> EmptyDict, select |-> EmptyDict]

op_none ==
    [fn |-> "none", source |-> "", arg |-> <<>>, keys |-> {}, validated_before |-> {},
     calls |-> <<>>, raised |-> FALSE, msg |-> NoMsg]

proc_start ==
    [pc |-> "start", helper |-> "", command |-> "", calls |-> <<>>, rejected |-> FALSE,
     exit_status |-> None, stderr |-> {}]

\* The record of a finished validate_* call.
Finished(fn, source, arg, keys, r) ==
    /\ op' = [fn |-> fn, source |-> source, arg |-> arg, keys |-> keys,
              validated_before |-> validated,
              calls |-> r.calls, raised |-> r.raised, msg |-> r.msg]
    /\ validated' = validated \cup keys
    /\ discovery_failed' = discovery_failed \cup r.failed

validate_facet_call ==
    /\ \E source \in Sources, facet \in FacetArgs, resp \in DescribeResponses,
          order \in Orders :
          LET r == validate_facet(Run(dimensions_valid_fields_cache), source, facet,
                                  resp, order)
          IN  /\ dimensions_valid_fields_cache' = r.cache
              /\ Finished("validate_facet", source, facet, {<<"describe", source>>}, r)
    /\ UNCHANGED <<pag_vars, openalex_valid_fields_cache, proc, persist_vars, par_vars>>

validate_aggregation_metrics_call ==
    /\ \E source \in Sources, metrics_str \in MetricArgs, resp \in DescribeResponses :
          LET r == validate_aggregation_metrics(Run(dimensions_valid_fields_cache),
                                                source, metrics_str, resp)
          IN  /\ dimensions_valid_fields_cache' = r.cache
              /\ Finished("validate_aggregation_metrics", source, metrics_str,
                          IF Falsy(metrics_str) THEN {} ELSE {<<"describe", source>>}, r)
    /\ UNCHANGED <<pag_vars, openalex_valid_fields_cache, proc, persist_vars, par_vars>>

validate_group_by_field_call ==
    /\ \E entity_type \in Entities, group_field \in GroupArgs, resp \in ProbeResponses,
          order \in Orders :
          LET r == validate_group_by_field(Run(openalex_valid_fields_cache), entity_type,
                                           group_field, resp, order)
          IN  /\ openalex_valid_fields_cache' = r.cache
              /\ Finished("validate_group_by_field", entity_type, group_field,
                          {<<"group_by", entity_type>>}, r)
    /\ UNCHANGED <<pag_vars, dimensions_valid_fields_cache, proc, persist_vars, par_vars>>

validate_select_fields_call ==
    /\ \E entity_type \in Entities, select_str \in SelectArgs, resp \in ProbeResponses :
          LET r == validate_select_fields(Run(openalex_valid_fields_cache), entity_type,
                                          select_str, resp)
          IN  /\ openalex_valid_fields_cache' = r.cache
              /\ Finished("validate_select_fields", entity_type, select_str,
                          IF Falsy(select_str) THEN {} ELSE {<<"select", entity_type>>}, r)
    /\ UNCHANGED <<pag_vars, dimensions_valid_fields_cache, proc, persist_vars, par_vars>>

----------------------------------------------------------------------------
(* Part C  the commands and the two main() *)

QueryCall(source) == [to |-> "dimensions", what |-> "query", source |-> source]
ApiRequestCall(endpoint) == [to |-> "openalex", what |-> "api_request", source |-> endpoint]

\* The exception of a failed data request (dimcli error, RequestException).
ApiError == [NoMsg EXCEPT !.kind = "API error"]

\* The network calls that are schema discovery.
IsDiscovery(call) == call.what \in {"describe", "group_by", "select"}

\* The ValueErrors of the validators.
IsRejection(r) == r.raised /\ r.msg.kind \in {"Invalid facet", "Invalid metric(s)",
                                              "Invalid group_by field",
                                              "Invalid select field(s)"}

\* result = _get_client().query(dsl): the request, which may raise.
dsl_query(r, source, query_resp) ==
    LET called == [r EXCEPT !.calls = Append(@, QueryCall(source))]
    IN  IF query_resp = "error" THEN Raise(called, ApiError) ELSE called

\* Lines 176-194: api_request(endpoint, params) re-raises a RequestException.
api_request(r, endpoint, api_resp) ==
    LET called == [r EXCEPT !.calls = Append(@, ApiRequestCall(endpoint))]
    IN  IF api_resp = "error" THEN Raise(called, ApiError) ELSE called

\* An aggregate_query that sends its search before it validates.
aggregate_query_unvalidated(r0, source, facet, aggregate_by, resp1, resp2, order, query_resp) ==
    LET r1 == dsl_query(r0, source, query_resp)
    IN  IF r1.raised THEN r1 ELSE validate_facet(r1, source, facet, resp1, order)

\* Lines 959-1008: aggregate_query(source, query_terms, facet, aggregate_by).
aggregate_query(r0, source, facet, aggregate_by, resp1, resp2, order, query_resp) ==
    LET r1 == validate_facet(r0, source, facet, resp1, order)
    IN  IF r1.raised THEN r1
        ELSE LET r2 == IF Falsy(aggregate_by) THEN r1
                       ELSE validate_aggregation_metrics(r1, source, aggregate_by, resp2)
             IN  IF r2.raised THEN r2 ELSE dsl_query(r2, source, query_resp)

\* Lines 737-762: group_by(entity_type, group_field).
group_by(r0, entity_type, group_field, resp, order, api_resp) ==
    LET r1 == validate_group_by_field(r0, entity_type, group_field, resp, order)
    IN  IF r1.raised THEN r1 ELSE api_request(r1, entity_type, api_resp)

\* Lines 411 (474, 533, 592, 651): the search uses cursor pagination.
uses_cursor(max_results) == Truthy(max_results) /\ max_results > PER_PAGE

\* Lines 382-449: search_works (search_authors, ... alike) up to its first
\* data request: the validation, then the single page request of standard
\* paging; with cursor pagination the requests are those of fetch_all_with_cursor.
search_entity(r0, entity_type, select, max_results, resp, api_resp) ==
    LET r1 == IF Falsy(select) THEN r0
              ELSE validate_select_fields(r0, entity_type, select, resp)
    IN  IF r1.raised \/ uses_cursor(max_results) THEN r1
        ELSE api_request(r1, entity_type, api_resp)

\* Lines 679 (739, 797, 855): the search uses query_iterative.
uses_iterative(iterative, max_results) ==
    iterative \/ (Truthy(max_results) /\ max_results > API_LIMIT)

\* Lines 1408-1420: main() of dimensions_helper.py catches every exception,
\* warns, prints {'error': ...} and returns: the exit status is 0.
dimensions_exit_status(r) == 0

\* Lines 887-931: main() of openalex_helper.py catches nothing: an exception
\* ends the process with a traceback and exit status 1.
openalex_exit_status(r) == IF r.raised THEN 1 ELSE 0

\* The end of a process whose command did `r`.
Exited(p, r, exit_status) ==
    [p EXCEPT !.pc = "exited", !.calls = r.calls, !.rejected = IsRejection(r),
              !.exit_status = exit_status,
              !.stderr = IF r.raised THEN {r.msg.kind} ELSE {}]

Launched(helper, command) == [proc_start EXCEPT !.helper = helper, !.command = command]

\* dimensions_helper.py aggregate SOURCE QUERY -F FACET [-a METRICS]
main_dimensions_aggregate ==
    /\ proc.pc = "start"
    /\ \E source \in Sources, facet \in FacetArgs, aggregate_by \in MetricArgs,
          resp1 \in DescribeResponses, resp2 \in DescribeResponses, order \in Orders,
          query_resp \in {"ok", "error"} :
          LET r == aggregate_query(Run(dimensions_valid_fields_cache), source, facet,
                                   aggregate_by, resp1, resp2, order, query_resp)
          IN  /\ dimensions_valid_fields_cache' = r.cache
              /\ proc' = Exited(Launched("dimensions", "aggregate"), r,
                                dimensions_exit_status(r))
    /\ UNCHANGED <<pag_vars, openalex_valid_fields_cache, op, validated, discovery_failed, persist_vars, par_vars>>

\* dimensions_helper.py search-publications QUERY [-i] [-m MAX]
main_dimensions_search ==
    /\ proc.pc = "start"
    /\ \E iterative \in BOOLEAN, max_results \in Ceilings(API_LIMIT),
          available \in Totals(API_LIMIT), query_resp \in {"ok", "error"} :
          IF uses_iterative(iterative, max_results)
          THEN /\ qi' = qi_enter(max_results, API_LIMIT)
               /\ dsl_server' = [server_idle EXCEPT !.available = available]
               /\ proc' = [Launched("dimensions", "search") EXCEPT !.pc = "paging"]
          ELSE LET r == dsl_query(Run(dimensions_valid_fields_cache), "publications",
                                  query_resp)
               IN  /\ proc' = Exited(Launched("dimensions", "search"), r,
                                     dimensions_exit_status(r))
                   /\ UNCHANGED <<qi, dsl_server>>
    /\ UNCHANGED <<fc, oa_server, schema_vars, persist_vars, par_vars>>

\* A page of the query_iterative of the search command; main() prints the
\* result when the function has returned.
main_dimensions_page ==
    /\ proc.pc = "paging" /\ proc.helper = "dimensions"
    /\ query_iterative_step
    /\ proc' = IF qi'.pc = "done"
               THEN Exited(proc, [Run(dimensions_valid_fields_cache) EXCEPT
                                      !.raised = qi'.raised, !.msg = ApiError],
                           dimensions_exit_status(qi'))
               ELSE proc
    /\ UNCHANGED <<schema_vars, persist_vars, par_vars>>

\* openalex_helper.py group ENTITY FIELD
main_openalex_group ==
    /\ proc.pc = "start"
    /\ \E entity_type \in Entities, group_field \in GroupArgs, resp \in ProbeResponses,
          order \in Orders, api_resp \in {"ok", "error"} :
          LET r == group_by(Run(openalex_valid_fields_cache), entity_type, group_field,
                            resp, order, api_resp)
          IN  /\ openalex_valid_fields_cache' = r.cache
              /\ proc' = Exited(Launched("openalex", "group"), r, openalex_exit_status(r))
    /\ UNCHANGED <<pag_vars, dimensions_valid_fields_cache, op, validated, discovery_failed, persist_vars, par_vars>>

\* openalex_helper.py search-works [QUERY] [--select FIELDS] [-m MAX]
main_openalex_search ==
    /\ proc.pc = "start"
    /\ \E entity_type \in Entities, select \in SelectArgs,
          max_results \in Ceilings(PER_PAGE), resp \in ProbeResponses,
          api_resp \in {"ok", "error"} :
          LET r == search_entity(Run(openalex_valid_fields_cache), entity_type, select,
                                 max_results, resp, api_resp)
          IN  /\ openalex_valid_fields_cache' = r.cache
              /\ IF ~r.raised /\ uses_cursor(max_results)
                 THEN /\ fc' = fc_enter(max_results)
                      /\ proc' = [Launched("openalex", "search") EXCEPT
                                      !.pc = "paging", !.calls = r.calls]
                 ELSE /\ proc' = Exited(Launched("openalex", "search"), r,
                                        openalex_exit_status(r))
                      /\ UNCHANGED fc
    /\ UNCHANGED <<qi, dsl_server, oa_server, dimensions_valid_fields_cache,
                   op, validated, discovery_failed, persist_vars, par_vars>>

\* A page of the fetch_all_with_cursor of the search command.
main_openalex_page ==
    /\ proc.pc = "paging" /\ proc.helper = "openalex"
    /\ fetch_all_with_cursor_step
    /\ proc' = IF fc'.pc = "done"
               THEN Exited(proc, [Run(openalex_valid_fields_cache) EXCEPT
                                      !.calls = proc.calls,
                                      !.raised = fc'.raised, !.msg = ApiError],
                           openalex_exit_status(fc'))
               ELSE proc
    /\ UNCHANGED <<schema_vars, persist_vars, par_vars>>

----------------------------------------------------------------------------
(* Part D.1  values of a DataFrame column and clean_for_parquet *)

\* A value of an object column: None, a str, a list or a dict, with the
\* values it holds (the values of its keys, for a dict).
Null == [kind |-> "none", text |-> "", items |-> <<>>]
Str(text) == [kind |-> "str", text |-> text, items |-> <<>>]
EmptyStr == Str("")
Num == [kind |-> "int", text |-> "1", items |-> <<>>]
ListOf(items) == [kind |-> "list", text |-> "", items |-> items]
DictOf(items) == [kind |-> "dict", text |-> "", items |-> items]

\* "isinstance(val, list) and val", "isinstance(val, dict) and val".
NonEmptyList(val) == val.kind = "list" /\ val.items /= <<>>
NonEmptyDict(val) == val.kind = "dict" /\ val.items /= <<>>

\* clean_nested_for_parquet(obj): '' becomes None at every level.
RECURSIVE clean_nested_for_parquet(_)
clean_nested_for_parquet(obj) ==
    IF obj.kind = "none" THEN Null
    ELSE IF obj.kind = "str" THEN (IF obj = EmptyStr THEN Null ELSE obj)
    ELSE [obj EXCEPT !.items = [i \in 1..Len(@) |-> clean_nested_for_parquet(@[i])]]

\* df[col].dtype: a column of numbers (NaN where one is missing) has a
\* numeric dtype, every other column is of dtype object.
dtype(column) ==
    IF /\ \E i \in DOMAIN column : column[i].kind = "int"
       /\ \A i \in DOMAIN column : column[i].kind \in {"int", "none"}
    THEN "float64"
    ELSE "object"

\* df[col].dropna()
dropna(column) == SelectSeq(column, LAMBDA val : val /= Null)

\* type_counts of clean_for_parquet: '' and the empty containers are not counted.
type_counts(non_null) ==
    [list |-> Len(SelectSeq(non_null, NonEmptyList)),
     dict |-> Len(SelectSeq(non_null, NonEmptyDict)),
     primitive |-> Len(SelectSeq(non_null, LAMBDA val : /\ val.kind \notin {"list", "dict"}
                                                        /\ val /= EmptyStr))]

\* A choice that takes 'list' as soon as there is a list.
dominant_type_any_list(counts) ==
    IF counts.list > 0 THEN "list"
    ELSE IF counts.dict > 0 THEN "dict"
    ELSE "primitive"

\* max(type_counts, key=type_counts.get): the first key of the dict, in the
\* order list, dict, primitive, that has the highest count; 'primitive'
\* when that count is 0.
dominant_type(counts) ==
    IF counts.list >= counts.dict /\ counts.list >= counts.primitive
    THEN (IF counts.list = 0 THEN "primitive" ELSE "list")
    ELSE IF counts.dict >= counts.primitive THEN "dict"
    ELSE "primitive"

\* A cleaner that returns every value as it is.
clean_value_kept(helper, dominant, val) == val

\* clean_value of make_cleaner(dominant); the Dimensions helper cleans the
\* value it keeps with clean_nested_for_parquet, the OpenAlex helper keeps
\* it as it is.
clean_value(helper, dominant, val) ==
    LET kept == IF helper = "dimensions" THEN clean_nested_for_parquet(val) ELSE val
    IN  IF val = Null THEN Null
        ELSE IF dominant = "list" THEN (IF NonEmptyList(val) THEN kept ELSE Null)
        ELSE IF dominant = "dict" THEN (IF NonEmptyDict(val) THEN kept ELSE Null)
        ELSE IF val.kind \in {"list", "dict"} THEN Null
        ELSE IF val = EmptyStr THEN Null
        ELSE val

\* clean_for_parquet(df) on an object column of df: the copy that is
\* returned; a column of another dtype and a column without a non-null
\* value are left alone.
clean_for_parquet(helper, column) ==
    LET non_null == dropna(column)
        dominant == dominant_type(type_counts(non_null))
    IN  IF dtype(column) /= "object" THEN column
        ELSE IF non_null = <<>> THEN column
        ELSE [i \in 1..Len(column) |-> clean_value(helper, dominant, column[i])]

\* json.dumps(x, default=str)
json_dumps(x) == [kind |-> "str", text |-> "json", items |-> <<x>>]

\* serialize_for_text_format(df): lists and dicts become JSON strings.
serialize_for_text_format(column) ==
    [i \in 1..Len(column) |->
        IF column[i].kind \in {"list", "dict"} THEN json_dumps(column[i]) ELSE column[i]]

\* '; '.join(str(i) for i in x)
join_list(x) ==
    IF x.items = <<>> \/ x.items = <<EmptyStr>> THEN EmptyStr
    ELSE [kind |-> "str", text |-> "joined", items |-> <<x>>]

\* Lines 628-637 of query_iterative on a column of pd.DataFrame(all_results):
\* with a dict as first non-null value the column is replaced by the columns
\* of its keys (here the first key; NaN where the value is no dict), with a
\* list the lists are joined to strings.
flatten_column(column) ==
    LET non_null == dropna(column)
    IN  IF non_null = <<>> THEN column
        ELSE IF non_null[1].kind = "dict"
        THEN [i \in 1..Len(column) |->
                 IF NonEmptyDict(column[i]) THEN column[i].items[1] ELSE Null]
        ELSE IF non_null[1].kind = "list"
        THEN [i \in 1..Len(column) |->
                 IF column[i].kind = "list" THEN join_list(column[i]) ELSE column[i]]
        ELSE column

----------------------------------------------------------------------------

(* Part D.2  generate_filename and save_results *)

TERM_LIMIT == 30          \* query_terms[:30]
DEFAULT_FORMAT == "dual"

Letters ==
    {"a","b","c","d","e","g","i","m","n","o","s","t","u","v","x","A","B","Z"}
Digits == {"0","1","2","3","4","5","6","7","8","9"}

\* c.isalnum()
isalnum(c) == c \in Letters \cup Digits

\* A generate_filename that cleans the whole of query_terms.
generate_filename_untruncated(prefix, query_terms, timestamp) ==
    IF Falsy(query_terms) THEN prefix \o <<"_">> \o timestamp
    ELSE prefix \o <<"_">>
         \o [i \in 1..Len(query_terms) |->
                IF isalnum(query_terms[i]) THEN query_terms[i] ELSE "_"]
         \o <<"_">> \o timestamp

\* generate_filename(prefix, query_terms), called when the clock reads
\* `timestamp` (datetime.now().strftime("%Y%m%d_%H%M%S")).
generate_filename(prefix, query_terms, timestamp) ==
    IF Falsy(query_terms) THEN prefix \o <<"_">> \o timestamp
    ELSE LET head == Take(query_terms, TERM_LIMIT)
             clean_terms == [i \in 1..Len(head) |->
                                IF isalnum(head[i]) THEN head[i] ELSE "_"]
         IN  prefix \o <<"_">> \o clean_terms \o <<"_">> \o timestamp

\* A file of OUTPUT_DIR: its name and extension, how it was written and the
\* rows (lines) it holds.
NoFile == [exists |-> FALSE, name |-> <<>>, ext |-> "", how |-> "", rows |-> <<>>]
File(name, ext, how, rows) ==
    [exists |-> TRUE, name |-> name, ext |-> ext, how |-> how, rows |-> rows]

\* The frame of save_results: its arguments (df and raw_data by one
\* column), its locals, the writes it attempted and the files they left.
saved_idle ==
    [pc |-> "idle", helper |-> "", via |-> "", format |-> "", df |-> <<>>,
     raw_given |-> FALSE, raw_data |-> <<>>, filename |-> <<>>,
     dominant |-> "", df_clean |-> <<>>, attempts |-> <<>>,
     parquet |-> NoFile, jsonl |-> NoFile, text |-> NoFile]

\* One write: on success the file is there, on failure the exception leaves
\* save_results unless the caller of the write catches it.
write(s, slot, file, ok) ==
    LET s1 == [s EXCEPT !.attempts = Append(@, [ext |-> file.ext, how |-> file.how, ok |-> ok])]
    IN  IF ok THEN [s1 EXCEPT ![slot] = file] ELSE [s1 EXCEPT !.pc = "raised"]

\* The else branch of save_results ("Default to parquet"): one write, no
\* handler around it.
to_parquet_once(s, io) ==
    write(s, "parquet", File(s.filename, "parquet", "native", s.df_clean), io.first_ok)

\* try: df_clean.to_parquet(path)
\* except Exception: serialize_for_text_format(df).to_parquet(path)
to_parquet_with_fallback(s, io) ==
    LET first == write(s, "parquet", File(s.filename, "parquet", "native", s.df_clean),
                       io.first_ok)
    IN  IF io.first_ok THEN first
        ELSE write([first EXCEPT !.pc = s.pc], "parquet",
                   File(s.filename, "parquet", "serialized", serialize_for_text_format(s.df)),
                   io.retry_ok)

\* A row-oriented write that takes its lines from the DataFrame.
to_jsonl_from_df(s, io) ==
    write(s, "jsonl",
          File(s.filename, "jsonl", "to_json", [i \in 1..Len(s.df) |-> json_dumps(s.df[i])]),
          io.text_ok)

\* if raw_data: one json.dumps(record) per line; else: df.to_json(lines=True)
to_jsonl(s, io) ==
    IF s.raw_given /\ s.raw_data /= <<>>
    THEN write(s, "jsonl",
               File(s.filename, "jsonl", "raw_data",
                    [i \in 1..Len(s.raw_data) |-> json_dumps(s.raw_data[i])]),
               io.text_ok)
    ELSE to_jsonl_from_df(s, io)

\* serialize_for_text_format(df).to_csv(filepath)
to_csv(s, ext, io) ==
    write(s, "text", File(s.filename, ext, "to_csv", serialize_for_text_format(s.df)),
          io.text_ok)

\* Lines 446-523 (266-321): save_results(df, prefix, query_terms, format,
\* raw_data); s holds the arguments, io what the file system does.
save_results(s, prefix, query_terms, timestamp, io) ==
    LET format == IF s.format = "None" THEN DEFAULT_FORMAT ELSE s.format
        non_null == dropna(s.df)
        s1 == [s EXCEPT !.pc = "running",
                        !.filename = generate_filename(prefix, query_terms, timestamp),
                        !.dominant = IF non_null = <<>> THEN ""
                                     ELSE dominant_type(type_counts(non_null)),
                        !.df_clean = clean_for_parquet(s.helper, s.df)]
        done == CASE format = "dual" ->
                        LET p == to_parquet_with_fallback(s1, io)
                        IN  IF p.pc = "raised" THEN p ELSE to_jsonl(p, io)
                  [] format = "parquet" -> to_parquet_with_fallback(s1, io)
                  [] format = "jsonl" -> to_jsonl(s1, io)
                  [] format = "tsv" -> to_csv(s1, "tsv", io)
                  [] format = "csv" -> to_csv(s1, "csv", io)
                  [] OTHER -> to_parquet_once(s1, io)
    IN  IF done.pc = "raised" THEN done ELSE [done EXCEPT !.pc = "returned"]

----------------------------------------------------------------------------

(* Part D.3  the columns, formats and file-system outcomes that are explored *)

MaxShape == 8      \* values of one shape in a column: 0, 1, 2 or MaxShape

ShapeCounts == {0, 1, 2, MaxShape}

Repeat(val, n) == [i \in 1..n |-> val]

\* A list, a dict and a scalar as the API returns them.
AList == ListOf(<<Str("a"), EmptyStr>>)
ADict == DictOf(<<Str("a")>>)
AScalar == Str("a")

\* Values that count for no shape.
Extras == {<<>>, <<Null, EmptyStr>>, <<ListOf(<<>>), DictOf(<<>>)>>}

\* Columns that clean_for_parquet passes over: all values None, numbers.
Skipped == {<<Null, Null>>, <<Num, Num>>, <<Num, Null>>}

\* The columns of the records: so many lists, dicts and scalars, in three
\* orders, followed by values that count for nothing.
Columns ==
    Skipped \cup
    {column \in
        {IF first = "list" THEN Repeat(AList, nl) \o Repeat(ADict, nd) \o Repeat(AScalar, np) \o extra
         ELSE IF first = "dict" THEN Repeat(ADict, nd) \o Repeat(AList, nl) \o Repeat(AScalar, np) \o extra
         ELSE Repeat(AScalar, np) \o Repeat(ADict, nd) \o Repeat(AList, nl) \o extra :
            nl \in ShapeCounts, nd \in ShapeCounts, np \in ShapeCounts,
            extra \in Extras, first \in {"list", "dict", "primitive"}} :
        column /= <<>>}

Formats == {"None", "dual", "parquet", "jsonl", "tsv", "csv", "xlsx"}

\* What the file system does to the writes of one save_results.
IOs == [first_ok : BOOLEAN, retry_ok : BOOLEAN, text_ok : BOOLEAN]

\* The callers of save_results: a search or aggregate function
\* (df = pd.DataFrame(records), raw_data = records), query_iterative (df
\* flattened, raw_data = all_results), or a caller that gives no raw_data.
Vias(helper) ==
    IF helper = "dimensions" THEN {"search", "query_iterative", "no_raw_data"}
    ELSE {"search", "no_raw_data"}

s_p == <<"p">>
s_stamp == <<"2","0","_","0","1">>
s_a_b == <<"a"," ","b">>
Str_long == Repeat("a", TERM_LIMIT - 1) \o <<".", "b", "1">>
TermArgs ==
    {NoStr, <<>>, <<"a","b","1">>, s_a_b, <<"A",".","b","_","Z">>, <<" ">>,
     Repeat("a", TERM_LIMIT), Str_long}

named_idle == [pc |-> "idle", prefix |-> <<>>, query_terms |-> <<>>, timestamp |-> <<>>,
               filename |-> <<>>]

\* save_results called by `via` on the records whose column is `column`.
SaveCall(helper, via, column, format) ==
    [saved_idle EXCEPT !.helper = helper, !.via = via, !.format = format,
                       !.df = IF via = "query_iterative" THEN flatten_column(column)
                              ELSE column,
                       !.raw_given = via /= "no_raw_data",
                       !.raw_data = IF via = "no_raw_data" THEN <<>> ELSE column]

save_results_call(helper) ==
    /\ saved.pc = "idle" /\ named.pc = "idle"
    /\ \E via \in Vias(helper), column \in Columns, format \in Formats, io \in IOs,
          query_terms \in {NoStr, s_a_b} :
          saved' = save_results(SaveCall(helper, via, column, format),
                                s_p, query_terms, s_stamp, io)
    /\ UNCHANGED <<pag_vars, schema_vars, proc, named, par_vars>>

dimensions_save_results == save_results_call("dimensions")

openalex_save_results == save_results_call("openalex")

generate_filename_call ==
    /\ saved.pc = "idle" /\ named.pc = "idle"
    /\ \E query_terms \in TermArgs :
          named' = [pc |-> "returned", prefix |-> s_p, query_terms |-> query_terms,
                    timestamp |-> s_stamp,
                    filename |-> generate_filename(s_p, query_terms, s_stamp)]
    /\ UNCHANGED <<pag_vars, schema_vars, proc, saved, par_vars>>

(* Part E  the rate limiter of the OpenAlex helper *)

REQUESTS_PER_SECOND == 10

\* 1.0 / REQUESTS_PER_SECOND, in milliseconds.
Interval == 1000 \div REQUESTS_PER_SECOND

\* The clock is read in steps of half an interval; it starts well after the
\* epoch and is followed for MaxTicks steps.
Tick == Interval \div 2
StartTime == 4 * Interval
MaxTicks == 4

\* The frame of a thread: where it is, the function it called, its local
\* `elapsed` and the time before which time.sleep does not return.
thread_idle == [pc |-> "idle", fn |-> "", elapsed |-> 0, wake |-> 0]

\* What was seen of a kind of event (a return of rate_limit, an HTTP request
\* that left the process): how many there were (0, 1, or more), the time of
\* the last one, the time between the last two (up to one interval), and
\* whether the last one went with a sleep (a return) or with a call of
\* rate_limit (a request).
seen_none == [n |-> 0, time |-> 0, gap |-> Interval, with |-> FALSE]

See(seen, with) ==
    [n |-> Min(seen.n + 1, 2), time |-> now,
     gap |-> IF seen.n = 0 THEN Interval ELSE Min(now - seen.time, Interval),
     with |-> with]

\* The threads of the process, none of them in a call.
limiter_idle(threads) ==
    [frames |-> [t \in threads |-> thread_idle], returned |-> seen_none, sent |-> seen_none]

\* A limiter that never sleeps.
rate_limit_no_sleep(elapsed) == 0

\* Lines 171-172: the time rate_limit sleeps after it computed `elapsed`.
rate_limit_sleep(elapsed) ==
    IF elapsed < Interval THEN Interval - elapsed ELSE 0

\* What the steps of the limiter leave alone.
limiter_rest ==
    <<pag_vars, dimensions_valid_fields_cache, op, validated, discovery_failed, proc,
      persist_vars, tracker_vars, checkers>>

\* Lines 170-172: a thread enters rate_limit (called directly or by
\* api_request), computes elapsed and calls time.sleep if it has to.
rate_limit_begin ==
    /\ \E t \in DOMAIN limiter.frames, fn \in {"rate_limit", "api_request"} :
          LET elapsed == now - last_request_time
          IN  /\ limiter.frames[t].pc = "idle"
              /\ limiter' = [limiter EXCEPT !.frames[t] =
                                 [pc |-> "sleep", fn |-> fn, elapsed |-> elapsed,
                                  wake |-> now + rate_limit_sleep(elapsed)]]
    /\ UNCHANGED <<now, last_request_time, openalex_valid_fields_cache, limiter_rest>>

\* Line 173: time.sleep has returned (not before `wake`); last_request_time
\* is written and rate_limit returns.
rate_limit_end ==
    /\ \E t \in DOMAIN limiter.frames :
          LET f == limiter.frames[t]
          IN  /\ f.pc = "sleep"
              /\ now >= f.wake
              /\ limiter' = [limiter EXCEPT
                                !.frames[t] = IF f.fn = "api_request"
                                              THEN [thread_idle EXCEPT !.pc = "send"]
                                              ELSE thread_idle,
                                !.returned = See(@, rate_limit_sleep(f.elapsed) > 0)]
    /\ last_request_time' = now
    /\ UNCHANGED <<now, openalex_valid_fields_cache, limiter_rest>>

\* Lines 180-194: api_request sends its request after rate_limit returned.
api_request_send ==
    /\ \E t \in DOMAIN limiter.frames :
          /\ limiter.frames[t].pc = "send"
          /\ limiter' = [limiter EXCEPT !.frames[t] = thread_idle, !.sent = See(@, TRUE)]
    /\ UNCHANGED <<now, last_request_time, openalex_valid_fields_cache, limiter_rest>>

\* The schema discoveries of validate_group_by_field and
\* validate_select_fields: when the entity type is not cached,
\* _fetch_valid_*_fields sends its probe with requests.get (lines 50, 83).
fetch_valid_fields_send ==
    /\ \E t \in DOMAIN limiter.frames, what \in {"group_by", "select"},
          entity_type \in Entities, resp \in ProbeResponses :
          LET r == fetch_valid_fields(Run(openalex_valid_fields_cache), what,
                                      entity_type, resp).run
          IN  /\ limiter.frames[t].pc = "idle"
              /\ r.calls /= <<>>
              /\ openalex_valid_fields_cache' = r.cache
              /\ limiter' = [limiter EXCEPT !.sent = See(@, FALSE)]
    /\ UNCHANGED <<now, last_request_time, limiter_rest>>

\* Time passes.
tick ==
    /\ now < StartTime + MaxTicks * Tick
    /\ now' = now + Tick
    /\ UNCHANGED <<last_request_time, limiter, openalex_valid_fields_cache, limiter_rest>>

----------------------------------------------------------------------------

(* Part F.1  RichProgressTracker *)

STATUS_ERROR_LIMIT == 50      \* str(error)[:50]

\* A value of item_status: "existing", "processing", "completed", or
\* "failed: " followed by the first characters of the error.
Status(kind) == [kind |-> kind, detail |-> <<>>]
FailedStatus(error) == [kind |-> "failed", detail |-> Take(error, STATUS_ERROR_LIMIT)]

\* self.lock when no thread holds it, and when set_failed holds it between
\* its two statements.
Unlocked == [held |-> FALSE, item_id |-> "", error |-> <<>>]
LockedBy(item_id, error) == [held |-> TRUE, item_id |-> item_id, error |-> error]

\* Lines 67-72: the tracking fields after __init__.
tracker_new ==
    [lock |-> Unlocked, item_status |-> EmptyDict, item_progress |-> EmptyDict,
     failed_items |-> <<>>]

\* Lines 88-89, 93-95, 99-100, 104-105: the bodies of the "with self.lock".
set_existing(tr, item_id) ==
    [tr EXCEPT !.item_status = Put(@, item_id, Status("existing"))]
set_processing(tr, item_id) ==
    [tr EXCEPT !.item_status = Put(@, item_id, Status("processing")),
               !.item_progress = Put(@, item_id, <<0, 0>>)]
update_progress(tr, item_id, current, total) ==
    [tr EXCEPT !.item_progress = Put(@, item_id, <<current, total>>)]
set_completed(tr, item_id) ==
    [tr EXCEPT !.item_status = Put(@, item_id, Status("completed"))]

\* A set_failed that keeps no log.
failed_items_unchanged(failed_items, item_id, error) == failed_items

\* Line 111: self.failed_items.append((item_id, str(error)))
failed_items_append(failed_items, item_id, error) ==
    Append(failed_items, <<item_id, error>>)

\* Lines 109-110: set_failed takes the lock and writes the status.
set_failed_status(tr, item_id, error) ==
    [tr EXCEPT !.lock = LockedBy(item_id, error),
               !.item_status = Put(@, item_id, FailedStatus(error))]

\* Line 111 and the end of the "with": the log entry, the lock is released.
set_failed_log(tr) ==
    [tr EXCEPT !.lock = Unlocked,
               !.failed_items = failed_items_append(@, tr.lock.item_id, tr.lock.error)]

\* Lines 107-111: set_failed as a whole.
set_failed(tr, item_id, error) == set_failed_log(set_failed_status(tr, item_id, error))

\* Lines 113-131: the four counts (each read under the lock).
CountKind(tr, kind) ==
    Cardinality({k \in DOMAIN tr.item_status : tr.item_status[k].kind = kind})
existing_count(tr) == CountKind(tr, "existing")
processing_count(tr) == CountKind(tr, "processing")
completed_count(tr) == CountKind(tr, "completed")
failed_count(tr) == CountKind(tr, "failed")

\* The number of items that are done in the state tr.
Processed(tr) == existing_count(tr) + completed_count(tr) + failed_count(tr)

\* The frame of a thread that evaluates processed_count (line 136) or runs
\* print_summary (lines 257-278): the counts it has read, the failure log it
\* has read, whether a writer was inside its "with self.lock" at that read,
\* and the values Processed took since the call began.
reader_idle ==
    [pc |-> "idle", fn |-> "", existing |-> 0, completed |-> 0, failed |-> 0,
     failed_items |-> <<>>, writer_inside |-> FALSE, instants |-> {}]

\* The reader's view of a step of another thread.
Observed(r, tr) ==
    IF r.pc \in {"idle", "done"} THEN r ELSE [r EXCEPT !.instants = @ \cup {Processed(tr)}]

----------------------------------------------------------------------------
(* Part F.2  threads that call the tracker, and a thread that reads it *)

ItemIds == {"a", "b"}
Errors == {<<"e">>}
MaxFailures == 2          \* entries of failed_items that are followed

tracker_rest == <<pag_vars, schema_vars, proc, persist_vars, limiter_vars, checkers>>

\* A step of a calling thread leaves `tr`.
Called(tr) ==
    /\ tracker' = tr
    /\ reader' = Observed(reader, tr)
    /\ UNCHANGED <<pool, tracker_rest>>

set_existing_call ==
    \E item_id \in ItemIds :
        ~tracker.lock.held /\ Called(set_existing(tracker, item_id))

set_processing_call ==
    \E item_id \in ItemIds :
        ~tracker.lock.held /\ Called(set_processing(tracker, item_id))

update_progress_call ==
    \E item_id \in ItemIds :
        ~tracker.lock.held /\ Called(update_progress(tracker, item_id, 1, 2))

set_completed_call ==
    \E item_id \in ItemIds :
        ~tracker.lock.held /\ Called(set_completed(tracker, item_id))

set_failed_call ==
    \E item_id \in ItemIds, error \in Errors :
        /\ ~tracker.lock.held
        /\ Len(tracker.failed_items) < MaxFailures
        /\ Called(set_failed_status(tracker, item_id, error))

set_failed_return ==
    tracker.lock.held /\ Called(set_failed_log(tracker))

\* The reader starts processed_count or print_summary.
reader_call ==
    /\ reader.pc \in {"idle", "done"}
    /\ \E fn \in {"processed_count", "print_summary"} :
          reader' = [reader_idle EXCEPT !.pc = "existing_count", !.fn = fn,
                                        !.instants = {Processed(tracker)}]
    /\ UNCHANGED <<tracker, pool, tracker_rest>>

\* Lines 136 and 266-268: existing_count, completed_count and failed_count
\* are read one after the other, each in its own "with self.lock".
reader_count ==
    /\ ~tracker.lock.held
    /\ \/ /\ reader.pc = "existing_count"
          /\ reader' = [reader EXCEPT !.existing = existing_count(tracker),
                                      !.pc = "completed_count"]
       \/ /\ reader.pc = "completed_count"
          /\ reader' = [reader EXCEPT !.completed = completed_count(tracker),
                                      !.pc = "failed_count"]
       \/ /\ reader.pc = "failed_count"
          /\ reader' = [reader EXCEPT !.failed = failed_count(tracker),
                                      !.pc = IF reader.fn = "print_summary"
                                             THEN "failed_items" ELSE "done"]
    /\ UNCHANGED <<tracker, pool, tracker_rest>>

\* Lines 272-278: print_summary reads self.failed_items; there is no
\* "with self.lock" around it.
reader_failed_items ==
    /\ reader.pc = "failed_items"
    /\ reader' = [reader EXCEPT !.failed_items = tracker.failed_items,
                                !.writer_inside = tracker.lock.held,
                                !.pc = "done"]
    /\ UNCHANGED <<tracker, pool, tracker_rest>>

----------------------------------------------------------------------------
(* Part F.3  create_parallel_processor *)

\* The lists of items and the max_workers that are explored.
ItemLists == {<<>>, <<"a">>, <<"a", "b">>, <<"a", "b", "c">>}
WorkerCounts == {1, 2}

\* How a call of process_func(item, index, tracker) that has called
\* set_processing can end: it returns after set_completed or set_failed, or
\* it raises an exception that is an Exception, or one that is only a
\* BaseException (SystemExit, KeyboardInterrupt).
Outcomes == {"completed", "failed", "Exception", "BaseException"}

task_pending == [state |-> "pending", runs |-> 0, outcome |-> ""]

pool_idle ==
    [pc |-> "idle", items |-> <<>>, max_workers |-> 0, tasks |-> <<>>,
     collected |-> {}, result |-> ""]

\* A loop over the futures that has no handler around future.result().
future_result_uncaught(outcome) ==
    IF outcome \in {"Exception", "BaseException"} THEN "propagates" ELSE "swallowed"

\* Lines 338-341: try: future.result() / except Exception: pass
future_result(outcome) ==
    IF outcome = "BaseException" THEN "propagates" ELSE "swallowed"

Running(p) == {i \in 1..Len(p.tasks) : p.tasks[i].state = "running"}
Finished_tasks(p) == {i \in 1..Len(p.tasks) : p.tasks[i].state = "finished"}

pool_rest == <<pag_vars, schema_vars, proc, persist_vars, limiter_vars, checkers, reader>>

\* Lines 324-335: the tracker is made, the display is started and one task
\* per item is submitted to the executor.
create_parallel_processor_call ==
    /\ pool.pc = "idle"
    /\ \E items \in ItemLists, max_workers \in WorkerCounts :
          pool' = [pool_idle EXCEPT !.pc = "as_completed", !.items = items,
                                    !.max_workers = max_workers,
                                    !.tasks = [i \in 1..Len(items) |-> task_pending]]
    /\ tracker' = tracker_new
    /\ UNCHANGED pool_rest

\* A worker thread of the executor takes a task from the queue and calls
\* process_func (lines 303-320): the item exists already and the call
\* returns, or the item is marked as being processed.
task_start ==
    /\ pool.pc \in {"as_completed", "shutdown"}
    /\ Cardinality(Running(pool)) < pool.max_workers
    /\ \E i \in 1..Len(pool.tasks), exists \in BOOLEAN :
          /\ pool.tasks[i].state = "pending"
          /\ pool' = [pool EXCEPT
                         !.tasks[i] = IF exists
                                      THEN [state |-> "finished", runs |-> @.runs + 1,
                                            outcome |-> "existing"]
                                      ELSE [state |-> "running", runs |-> @.runs + 1,
                                            outcome |-> ""]]
          /\ tracker' = IF exists THEN set_existing(tracker, pool.items[i])
                        ELSE set_processing(tracker, pool.items[i])
    /\ UNCHANGED pool_rest

\* process_func ends: it returns or raises, and the future is done.
task_finish ==
    /\ \E i \in Running(pool), outcome \in Outcomes, error \in Errors :
          /\ pool' = [pool EXCEPT !.tasks[i].state = "finished",
                                  !.tasks[i].outcome = outcome]
          /\ tracker' = CASE outcome = "completed" -> set_completed(tracker, pool.items[i])
                          [] outcome = "failed" -> set_failed(tracker, pool.items[i], error)
                          [] OTHER -> tracker
    /\ UNCHANGED pool_rest

\* Lines 337-342: as_completed gives the next future that is done and the
\* main thread takes its result; an exception that is not swallowed leaves
\* the loop and the "with ThreadPoolExecutor" waits for the tasks.
as_completed_next ==
    /\ pool.pc = "as_completed"
    /\ \E i \in Finished_tasks(pool) \ pool.collected :
          pool' = [pool EXCEPT
                      !.collected = @ \cup {i},
                      !.pc = IF future_result(pool.tasks[i].outcome) = "propagates"
                             THEN "shutdown" ELSE @,
                      !.result = IF future_result(pool.tasks[i].outcome) = "propagates"
                                 THEN pool.tasks[i].outcome ELSE @]
    /\ UNCHANGED <<tracker, pool_rest>>

\* Lines 331-345: the loop is over (every future was taken, or an exception
\* left it), executor.shutdown(wait=True) has waited for every task, and
\* create_parallel_processor returns the tracker after print_summary, or the
\* exception goes on to the caller.
create_parallel_processor_return ==
    /\ \/ pool.pc = "as_completed" /\ pool.collected = 1..Len(pool.tasks)
       \/ pool.pc = "shutdown"
    /\ Finished_tasks(pool) = 1..Len(pool.tasks)
    /\ pool' = IF pool.pc = "shutdown" THEN [pool EXCEPT !.pc = "raised"]
               ELSE [pool EXCEPT !.pc = "returned", !.result = "tracker"]
    /\ UNCHANGED <<tracker, pool_rest>>

----------------------------------------------------------------------------
(* Part G  threads that validate against the Dimensions schema cache *)

\* The three sets _fetch_source_metadata builds before it writes them.
no_entry == [facets |-> {}, filters |-> {}, metrics |-> {}]
describe_entry(resp) ==
    [facets |-> describe_facets(resp), filters |-> describe_filters(resp),
     metrics |-> describe_metrics(resp)]

\* The frame of a thread in validate_aggregation_metrics: its arguments,
\* whether _fetch_source_metadata found the source cached, the locals
\* facets, filters and metrics, and how the validation ended.
checker_idle ==
    [pc |-> "idle", source |-> "", metrics_str |-> <<>>, found_cached |-> FALSE,
     entry |-> no_entry, raised |-> FALSE]

CheckerThreads == {"t1", "t2"}
CheckerArgs == {s_sum_a, s_x}

\* What "describe source X" gives while the threads run: the schema of the
\* source, or an exception.
CheckerResponses == {DescribeFull, DescribeError}

checkers_rest ==
    <<pag_vars, openalex_valid_fields_cache, op, validated, discovery_failed, proc,
      persist_vars, limiter_vars, tracker_vars>>

\* Lines 300-303 and 228-229: a thread calls validate_aggregation_metrics
\* with a metrics string and _fetch_source_metadata looks for the source in
\* _valid_fields_cache['facets'].
checker_call ==
    /\ \E t \in CheckerThreads, source \in Sources, metrics_str \in CheckerArgs :
          LET cached == source \in DOMAIN dimensions_valid_fields_cache.facets
          IN  /\ checkers[t].pc = "idle"
              /\ checkers' = [checkers EXCEPT ![t] =
                                 [checker_idle EXCEPT
                                     !.pc = IF cached THEN "validate" ELSE "describe",
                                     !.source = source, !.metrics_str = metrics_str,
                                     !.found_cached = cached]]
    /\ UNCHANGED <<dimensions_valid_fields_cache, checkers_rest>>

\* Lines 231-257 and 265-266: the describe query and the three sets; an
\* exception is caught and nothing is written.
checker_describe ==
    /\ \E t \in CheckerThreads, resp \in CheckerResponses :
          /\ checkers[t].pc = "describe"
          /\ checkers' = [checkers EXCEPT ![t] =
                             IF resp.kind = "error" THEN [@ EXCEPT !.pc = "validate"]
                             ELSE [@ EXCEPT !.pc = "facets", !.entry = describe_entry(resp)]]
    /\ UNCHANGED <<dimensions_valid_fields_cache, checkers_rest>>

\* Lines 259-261: the three assignments to the cache, one at a time.
checker_write ==
    /\ \E t \in CheckerThreads :
          LET f == checkers[t]
          IN  /\ f.pc \in {"facets", "filters", "metrics"}
              /\ dimensions_valid_fields_cache' =
                     [dimensions_valid_fields_cache EXCEPT
                         ![f.pc] = Put(@, f.source, f.entry[f.pc])]
              /\ checkers' = [checkers EXCEPT ![t].pc =
                                 CASE f.pc = "facets" -> "filters"
                                   [] f.pc = "filters" -> "metrics"
                                   [] OTHER -> "validate"]
    /\ UNCHANGED checkers_rest

\* Lines 304-333: the metrics are checked against what the cache holds now.
checker_validate ==
    /\ \E t \in CheckerThreads :
          LET f == checkers[t]
              r == metrics_verdict(Run(dimensions_valid_fields_cache), f.source, f.metrics_str)
          IN  /\ f.pc = "validate"
              /\ checkers' = [checkers EXCEPT ![t].pc = "done", ![t].raised = r.raised]
    /\ UNCHANGED <<dimensions_valid_fields_cache, checkers_rest>>

\* The thread goes on to its next call.
checker_return ==
    /\ \E t \in CheckerThreads :
          /\ checkers[t].pc = "done"
          /\ checkers' = [checkers EXCEPT ![t] = checker_idle]
    /\ UNCHANGED <<dimensions_valid_fields_cache, checkers_rest>>

----------------------------------------------------------------------------

(* Specifications *)

\* A process in which nothing has been called yet, but for its threads.
InitCaller ==
    /\ qi = qi_idle
    /\ dsl_server = server_idle
    /\ fc = fc_idle
    /\ oa_server = server_idle
    /\ dimensions_valid_fields_cache = DimensionsCacheEmpty
    /\ openalex_valid_fields_cache = OpenAlexCacheEmpty
    /\ op = op_none
    /\ validated = {}
    /\ discovery_failed = {}
    /\ proc = proc_start
    /\ saved = saved_idle
    /\ named = named_idle
    /\ now = StartTime
    /\ last_request_time = 0
    /\ tracker = tracker_new
    /\ reader = reader_idle
    /\ pool = pool_idle
    /\ checkers = [t \in CheckerThreads |-> checker_idle]

\* A process with one thread in which nothing has been called yet.
Init == InitCaller /\ limiter = limiter_idle({"main"})

NextPaginate ==
    \/ query_iterative_call
    \/ query_iterative_page
    \/ fetch_all_with_cursor_call
    \/ fetch_all_with_cursor_page

SpecPaginate == Init /\ [][NextPaginate]_vars

(* Specification of the schema registry *)

NextSchema ==
    \/ validate_facet_call
    \/ validate_aggregation_metrics_call
    \/ validate_group_by_field_call
    \/ validate_select_fields_call

SpecSchema == Init /\ [][NextSchema]_vars

(* Specification of one command-line run of a helper *)

NextCommand ==
    \/ main_dimensions_aggregate
    \/ main_dimensions_search
    \/ main_dimensions_page
    \/ main_openalex_group
    \/ main_openalex_search
    \/ main_openalex_page

SpecCommand == Init /\ [][NextCommand]_vars

----------------------------------------------------------------------------
(* Specification of the persistence *)

NextPersist ==
    \/ dimensions_save_results
    \/ openalex_save_results
    \/ generate_filename_call

SpecPersist == Init /\ [][NextPersist]_vars

----------------------------------------------------------------------------
(* Specifications of the rate limiter, with one thread and with two *)

NextLimiter ==
    \/ rate_limit_begin
    \/ rate_limit_end
    \/ api_request_send
    \/ fetch_valid_fields_send
    \/ tick

SpecLimiter == Init /\ [][NextLimiter]_vars

InitThreads == InitCaller /\ limiter = limiter_idle({"t1", "t2"})

SpecLimiterThreads == InitThreads /\ [][NextLimiter]_vars

----------------------------------------------------------------------------
(* Specification of a tracker used by several threads *)

NextTracker ==
    \/ set_existing_call
    \/ set_processing_call
    \/ update_progress_call
    \/ set_completed_call
    \/ set_failed_call
    \/ set_failed_return
    \/ reader_call
    \/ reader_count
    \/ reader_failed_items

SpecTracker == Init /\ [][NextTracker]_vars

----------------------------------------------------------------------------
(* Specification of create_parallel_processor *)

NextProcessor ==
    \/ create_parallel_processor_call
    \/ task_start
    \/ task_finish
    \/ as_completed_next
    \/ create_parallel_processor_return

SpecProcessor == Init /\ [][NextProcessor]_vars

----------------------------------------------------------------------------
(* Specification of two threads that validate metrics *)

NextCheckers ==
    \/ checker_call
    \/ checker_describe
    \/ checker_write
    \/ checker_validate
    \/ checker_return

SpecCheckers == Init /\ [][NextCheckers]_vars

----------------------------------------------------------------------------
(* Claims on the pagination engine *)

\* The batches [page, n] of the pages a server served.
Batches(served) == [i \in 1..Len(served) |-> [page |-> served[i].page, n |-> served[i].n]]

\* The frames and server records of the two modes.
Modes == {<<qi, dsl_server>>, <<fc, oa_server>>}

\* C1: every result of a paginated retrieval from a faultless server has
\* retrieved = len(data), and retrieved <= max_results whenever the caller
\* gave a ceiling (a positive max_results; a ceiling of zero is the case of
\* C12).
C1_RetrievedWithinCeiling ==
    \A m \in Modes :
        LET f == m[1] IN
        (f.pc = "done" /\ ~f.raised /\ m[2].honest) =>
            /\ f.result.retrieved = Count(f.result.data)
            /\ Truthy(f.max_results) => f.result.retrieved <= f.max_results

\* The limits of the page requests of a retrieval, in order.
Limits(requests) == [i \in 1..Len(requests) |-> requests[i].limit]

RECURSIVE Sum(_)
Sum(seq) == IF seq = <<>> THEN 0 ELSE Head(seq) + Sum(Tail(seq))

\* C2: with a faultless server holding at least the ceiling, the requested
\* sizes of an offset retrieval sum to the ceiling: the last request asks
\* only for the remainder; ceiling 2500 and batch 1000 give 1000, 1000, 500.
C2_LastRequestAsksRemainder ==
    (/\ qi.pc = "done"
     /\ dsl_server.honest
     /\ Truthy(qi.max_results)
     /\ dsl_server.available >= qi.max_results) =>
        /\ Sum(Limits(qi.requests)) = qi.max_results
        /\ (qi.max_results = 5 * (API_LIMIT \div 2) /\ qi.batch_size = API_LIMIT) =>
               Limits(qi.requests) = <<API_LIMIT, API_LIMIT, API_LIMIT \div 2>>

C4_StopsWithoutCursor ==
    \A i \in 1..Len(oa_server.served) :
        LET p == oa_server.served[i] IN
        ~CursorTruthy(p.next_cursor) =>
            /\ fc.pc = "done"
            /\ Len(fc.requests) = i
            /\ p.n > 0 => /\ fc.result.data /= <<>>
                          /\ fc.result.data[Len(fc.result.data)] = [page |-> i, n |-> p.n]

\* A second page without next_cursor ended the retrieval below the target.
C4_Witness ==
    /\ fc.pc = "done"
    /\ Len(oa_server.served) = 2
    /\ ~CursorTruthy(oa_server.served[2].next_cursor)
    /\ oa_server.served[2].n > 0
    /\ fc.result.retrieved < fc.result.total

----------------------------------------------------------------------------
(* Claims on the schema registry *)

IsFieldValidator(fn) ==
    fn \in {"validate_facet", "validate_group_by_field", "validate_select_fields"}

\* The cached valid-set the validator `fn` reads for `source`: a set of one
\* element when the source is cached, and no element when it is not.
CachedSets(fn, source) ==
    LET dict == CASE fn = "validate_facet" -> dimensions_valid_fields_cache.facets
                  [] fn = "validate_aggregation_metrics" -> dimensions_valid_fields_cache.metrics
                  [] fn = "validate_group_by_field" -> openalex_valid_fields_cache.group_by
                  [] fn = "validate_select_fields" -> openalex_valid_fields_cache.select
                  [] OTHER -> EmptyDict
    IN  IF source \in DOMAIN dict THEN {dict[source]} ELSE {}

\* The field names a call names: the argument, or the elements of a
\* comma-separated list without their blanks, the empty ones left out.
FieldsOf(fn, arg) ==
    IF fn \in {"validate_select_fields", "validate_aggregation_metrics"}
    THEN SelectSeq(StripAll(Split(arg, ",")),
                   LAMBDA f : f /= <<>> \/ fn = "validate_aggregation_metrics")
    ELSE <<arg>>

\* C5: against a cached valid-set (the empty one too), validating a member
\* never raises, and validating a non-member raises with a message that
\* holds the field, at most 5 suggestions out of the valid set, and a
\* truncated list of the valid fields.
C5_MemberPassesAbsentRaises ==
    (IsFieldValidator(op.fn) /\ op.keys /= {}) =>
        \A valid \in CachedSets(op.fn, op.source) :
            LET absent == Range(FieldsOf(op.fn, op.arg)) \ valid
            IN  /\ absent = {} => ~op.raised
                /\ absent /= {} =>
                      /\ op.raised
                      /\ absent \subseteq Range(op.msg.offending)
                      /\ Len(op.msg.suggestions) <= SUGGESTION_LIMIT
                      /\ Range(op.msg.suggestions) \subseteq valid
                      /\ op.msg.lists_valid
                      /\ Range(op.msg.valid_list) \subseteq valid

\* C8: once the schema discovery of a source has failed, no later
\* validation of that source raises.
C8_FailedDiscoveryStaysPermissive ==
    op.raised => op.keys \cap discovery_failed = {}

\* C9: a validation sends a schema-discovery request only for a source that
\* no earlier validation has validated.
C9_DiscoveryOnlyOnFirstValidation ==
    \A i \in 1..Len(op.calls) :
        IsDiscovery(op.calls[i]) =>
            <<op.calls[i].what, op.calls[i].source>> \notin op.validated_before

\* func(field) for a func of the allow-list, whatever field is.
IsFunctionForm(e) ==
    \E func \in AGGREGATE_FUNCTIONS :
        /\ Len(e) >= Len(func) + 2
        /\ Slice(e, 1, Len(func)) = func
        /\ e[Len(func) + 1] = "("
        /\ e[Len(e)] = ")"

\* A '(' somewhere, and a func of the allow-list before the first one.
StartsWithFunction(e) ==
    /\ HasChar(e, "(")
    /\ Slice(e, 1, Find(e, "(") - 1) \in AGGREGATE_FUNCTIONS

\* The elements of a metrics argument that `accepted` does not accept.
Offending(arg, accepted(_)) ==
    SelectSeq(FieldsOf("validate_aggregation_metrics", arg), LAMBDA e : ~accepted(e))

\* A validate_aggregation_metrics call against a non-empty cached metric set.
MetricsCalls ==
    IF op.fn = "validate_aggregation_metrics" /\ ~Falsy(op.arg)
    THEN {valid \in CachedSets(op.fn, op.source) : valid /= {}}
    ELSE {}

----------------------------------------------------------------------------
(* Claims on the commands *)

\* C6: when a validator rejects a field the command ends without any data
\* request: the only network calls of the run are schema discovery.
C6_NoDataRequestAfterRejection ==
    proc.rejected =>
        /\ proc.pc = "exited"
        /\ \A i \in 1..Len(proc.calls) : IsDiscovery(proc.calls[i])
        /\ qi.requests = <<>>
        /\ fc.requests = <<>>

\* An aggregate command rejected after its describe call.
C6_Witness ==
    /\ proc.rejected
    /\ proc.command = "aggregate"
    /\ Len(proc.calls) = 1

\* C7: a command whose field was rejected exits with a non-zero status and
\* the 'Invalid ...' message on stderr; a command whose page request failed
\* exits with status 0.
C7_RejectionFailsPageFailureSucceeds ==
    proc.pc = "exited" =>
        /\ proc.rejected =>
              /\ proc.exit_status /= 0
              /\ \E kind \in proc.stderr :
                    kind \in {"Invalid facet", "Invalid metric(s)",
                              "Invalid group_by field", "Invalid select field(s)"}
        /\ (dsl_server.failed_at > 0 \/ oa_server.failed_at > 0) => proc.exit_status = 0

\* C11: validate_aggregation_metrics and validate_select_fields given None
\* or '' never raise and send no schema-discovery request, cached or not.
C11_AbsentRequestIsNotValidated ==
    (op.fn \in {"validate_aggregation_metrics", "validate_select_fields"} /\ Falsy(op.arg)) =>
        /\ ~op.raised
        /\ op.calls = <<>>
        /\ op.keys = {}

\* An absent select list validated while nothing is cached for the entity,
\* and an absent metrics list validated against a cached schema.
C11_Witness ==
    \/ /\ op.fn = "validate_select_fields"
       /\ op.arg = NoStr
       /\ CachedSets(op.fn, op.source) = {}
    \/ /\ op.fn = "validate_aggregation_metrics"
       /\ op.arg = <<>>
       /\ CachedSets(op.fn, op.source) /= {}

\* C12: a paginated retrieval with max_results = 0 returns no record
\* (retrieved = 0), in both modes, whatever the server returns (a faultless
\* server included).
C12_ZeroCeilingReturnsNothing ==
    \A m \in Modes :
        LET f == m[1] IN
        (f.pc = "done" /\ f.max_results = 0 /\ m[2].honest) =>
            /\ f.result.retrieved = 0
            /\ f.result.data = <<>>

\* min(total, ceiling), or the total when the caller gave no ceiling.
Target(total, max_results) ==
    IF max_results = None THEN total ELSE Min(total, max_results)

\* C13: once a page has been read, the target of the retrieval is the
\* minimum of the total reported by the first page and the caller's ceiling
\* (the reported total when there is no ceiling), whatever the later pages
\* report, and it is the 'total' that is returned.
C13_TargetFixedByFirstPage ==
    \A m \in Modes :
        LET f == m[1]
            server == m[2]
        IN  (server.served /= <<>> /\ server.first_total /= None) =>
                /\ f.total_count = Target(server.first_total, f.max_results)
                /\ f.pc = "done" => f.result.total = f.total_count

\* C14: the result of a retrieval without ceiling has retrieved <= total,
\* whatever the server answered.
C14_RetrievedWithinTotal ==
    \A m \in Modes :
        LET f == m[1] IN
        (f.pc = "done" /\ f.max_results = None /\ m[2].served /= <<>>) =>
            f.result.retrieved <= f.result.total

----------------------------------------------------------------------------
(* Claims on the persistence *)

\* The number of non-empty values of a shape in a column.
ShapeCount(column, shape) ==
    Cardinality({i \in DOMAIN column :
                    IF shape = "primitive"
                    THEN column[i].kind \in {"str", "int"} /\ column[i].text /= ""
                    ELSE column[i].kind = shape /\ Len(column[i].items) > 0})

Shapes == {"list", "dict", "primitive"}

\* The shapes with the highest count in a column.
Leaders(column) ==
    {shape \in Shapes :
        \A other \in Shapes : ShapeCount(column, shape) >= ShapeCount(column, other)}

\* C15: for a column with a non-null value, the dominant shape has the
\* highest count of non-empty values, and it is the scalar shape whenever
\* two or more shapes share the highest count.
C15_DominantIsHighestCountTiesToScalar ==
    (saved.pc /= "idle" /\ \E i \in DOMAIN saved.df : saved.df[i] /= Null) =>
        /\ saved.dominant \in Shapes
        /\ Cardinality(Leaders(saved.df)) = 1 => saved.dominant \in Leaders(saved.df)
        /\ Cardinality(Leaders(saved.df)) >= 2 => saved.dominant = "primitive"

\* C16: in a column with more dicts than lists and no scalar the dominant
\* shape is dict, every list of the column is None in the cleaned table, and
\* the jsonl lines written from the raw records still hold these lists: the
\* raw records are the ones that were passed.
C16_ListsNulledOnlyInCleanedTable ==
    (/\ saved.pc /= "idle"
     /\ ShapeCount(saved.df, "dict") > ShapeCount(saved.df, "list")
     /\ ShapeCount(saved.df, "primitive") = 0) =>
        /\ saved.dominant = "dict"
        /\ \A i \in DOMAIN saved.df :
              saved.df[i].kind = "list" =>
                  /\ saved.df_clean[i] = Null
                  /\ (saved.parquet.exists /\ saved.parquet.how = "native") =>
                         saved.parquet.rows[i] = Null
                  /\ (saved.via = "search" /\ saved.jsonl.exists) =>
                         /\ saved.raw_data[i] = saved.df[i]
                         /\ saved.jsonl.rows[i].items = <<saved.df[i]>>

\* Eight dicts and two lists saved in dual format.
C16_Witness ==
    /\ saved.pc = "returned"
    /\ saved.via = "search"
    /\ ShapeCount(saved.df, "dict") = MaxShape
    /\ ShapeCount(saved.df, "list") = 2
    /\ ShapeCount(saved.df, "primitive") = 0
    /\ saved.parquet.exists /\ saved.parquet.how = "native"
    /\ saved.jsonl.exists

\* The attempts of save_results to write a file of an extension.
Attempts(ext) == SelectSeq(saved.attempts, LAMBDA a : a.ext = ext)

\* C17: in every format that writes a parquet file ('dual', 'parquet', the
\* default branch), a failed first write is followed by exactly one retry,
\* with the serialized table; a failed retry is raised; there is no third
\* attempt.
C17_OneSerializedRetry ==
    (saved.pc /= "idle" /\ Attempts("parquet") /= <<>>) =>
        LET tries == Attempts("parquet") IN
        /\ Len(tries) <= 2
        /\ tries[1].how = "native"
        /\ ~tries[1].ok => /\ Len(tries) = 2
                           /\ tries[2].how = "serialized"
                           /\ ~tries[2].ok => saved.pc = "raised"

\* C18: the jsonl file written from the raw records has one line per
\* record, in order, and line i encodes record i as it was retrieved.
C18_JsonlHoldsRawRecords ==
    (saved.jsonl.exists /\ saved.raw_given) =>
        /\ Len(saved.jsonl.rows) = Len(saved.raw_data)
        /\ \A i \in DOMAIN saved.raw_data :
              saved.jsonl.rows[i] = json_dumps(saved.raw_data[i])

\* A jsonl file next to a table that was flattened and then cleaned.
C18_Witness ==
    /\ saved.jsonl.exists
    /\ saved.via = "query_iterative"
    /\ saved.df /= saved.raw_data
    /\ saved.df_clean /= saved.df

\* C19: in dual format the jsonl file is written even when both parquet
\* writes failed, and a failed jsonl write leaves the parquet file as it
\* was written.
C19_WritesAreIndependent ==
    (saved.pc /= "idle" /\ saved.format \in {"None", "dual"}) =>
        /\ (\A i \in DOMAIN Attempts("parquet") : ~Attempts("parquet")[i].ok) =>
               Attempts("jsonl") /= <<>>
        /\ (Attempts("jsonl") /= <<>> /\ ~Attempts("jsonl")[1].ok) =>
               /\ saved.parquet.exists
               /\ saved.parquet.rows \in {saved.df_clean, serialize_for_text_format(saved.df)}

\* prefix_timestamp, or prefix_term_timestamp for a term.
NameOf(prefix, term, timestamp, has_term) ==
    IF has_term THEN prefix \o <<"_">> \o term \o <<"_">> \o timestamp
    ELSE prefix \o <<"_">> \o timestamp

\* In dual format both files carry the generated name.
DualFilesShareName ==
    (saved.parquet.exists /\ saved.jsonl.exists) =>
        /\ saved.parquet.name = saved.filename /\ saved.parquet.ext = "parquet"
        /\ saved.jsonl.name = saved.filename /\ saved.jsonl.ext = "jsonl"

\* C20 as claimed: the term of the name is what is left of the first 30
\* characters of query_terms when every non-alphanumeric character is
\* removed.
C20_TermKeepsOnlyAlphanumerics ==
    /\ named.pc = "returned" =>
          named.filename =
              NameOf(named.prefix,
                     SelectSeq(Take(named.query_terms, TERM_LIMIT), isalnum),
                     named.timestamp, ~Falsy(named.query_terms))
    /\ DualFilesShareName

\* C20 amended: the term of the name is the first 30 characters of
\* query_terms with every non-alphanumeric character replaced by '_'.
C20_TermReplacesNonAlphanumerics ==
    /\ named.pc = "returned" =>
          LET n == Min(Len(named.query_terms), TERM_LIMIT)
          IN  named.filename =
                  NameOf(named.prefix,
                         [i \in 1..n |-> IF named.query_terms[i] \in Letters \cup Digits
                                         THEN named.query_terms[i] ELSE "_"],
                         named.timestamp, ~Falsy(named.query_terms))
    /\ DualFilesShareName

\* A name made from a term of more than 30 characters.
C20_Witness ==
    /\ named.pc = "returned"
    /\ Len(named.query_terms) > TERM_LIMIT
    /\ Len(named.filename) = Len(named.prefix) + TERM_LIMIT + Len(named.timestamp) + 2

----------------------------------------------------------------------------
(* Claims on the rate limiter *)

\* C21: with a single calling thread, every call of rate_limit returns at
\* least 1/REQUESTS_PER_SECOND after the previous call returned, and
\* last_request_time holds the time at which the most recent call returned.
C21_CallsReturnAnIntervalApart ==
    /\ limiter.returned.gap >= Interval
    /\ limiter.returned.n > 0 => last_request_time = limiter.returned.time

\* C21 witness: a call that came less than an interval after the previous
\* one returned has slept and returned one interval after it.
C21_Witness ==
    /\ limiter.returned.n = 2
    /\ limiter.returned.with
    /\ limiter.frames["main"].pc = "idle"
    /\ now = limiter.returned.time

\* C22: with several threads in rate_limit at once, any two calls still
\* return at least 1/REQUESTS_PER_SECOND apart.
C22_ThreadsReturnAnIntervalApart ==
    DOMAIN limiter.frames = {"t1", "t2"} => limiter.returned.gap >= Interval

\* C28: every HTTP request of the OpenAlex helper, the probes of the schema
\* discovery included, was preceded by rate_limit, and two consecutive
\* requests are at least 1/REQUESTS_PER_SECOND apart.
C28_EveryRequestIsRateLimited ==
    /\ limiter.sent.n > 0 => limiter.sent.with
    /\ limiter.sent.gap >= Interval

----------------------------------------------------------------------------
(* Claims on the progress tracker *)

\* C23: the counts a reader obtains belong to one state of item_status:
\* the sum of existing_count, completed_count and failed_count that
\* processed_count (or print_summary) has read is the number of items that
\* were done at some instant of the read; and no writer is inside its
\* "with self.lock" when print_summary reads the failure log.
C23_CountsBelongToOneInstant ==
    reader.pc = "done" =>
        /\ reader.existing + reader.completed + reader.failed \in reader.instants
        /\ ~reader.writer_inside

\* The items that have a status.
Tracked == DOMAIN tracker.item_status

\* failed_items only grows: it keeps the entries it has.
FailedItemsGrow ==
    /\ Len(tracker.failed_items') >= Len(tracker.failed_items)
    /\ SubSeq(tracker.failed_items', 1, Len(tracker.failed_items)) = tracker.failed_items

\* Between two calls the four counts add up to the number of items that
\* have a status, and every failed item has an entry in failed_items.
CountsAddUp ==
    ~tracker.lock.held =>
        /\ existing_count(tracker) + processing_count(tracker)
               + completed_count(tracker) + failed_count(tracker) = Cardinality(Tracked)
        /\ \A k \in Tracked :
               tracker.item_status[k].kind = "failed" =>
                   \E i \in 1..Len(tracker.failed_items) : tracker.failed_items[i][1] = k
        /\ failed_count(tracker) <= Len(tracker.failed_items)

\* C29: after any interleaving of set_existing, set_processing,
\* set_completed, set_failed and update_progress calls, an item has one
\* status and the four counts add up to the number of items with a status,
\* failed_items only grows, and every item that is failed has an entry in
\* failed_items (failed_count <= len(failed_items)).
C29_CountsAddUpAndFailuresAreLogged == [](CountsAddUp) /\ [][FailedItemsGrow]_vars

\* C29 witness: an item failed, was retried and failed again while another
\* item is being processed: two log entries, one failed item.
C29_Witness ==
    /\ ~tracker.lock.held
    /\ Len(tracker.failed_items) = 2
    /\ failed_count(tracker) = 1
    /\ processing_count(tracker) = 1
    /\ Cardinality(Tracked) = 2

\* Every task has run once and is finished.
AllTasksRan ==
    \A i \in 1..Len(pool.tasks) : pool.tasks[i].state = "finished" /\ pool.tasks[i].runs = 1

\* The outcomes of the tasks that are finished.
TaskOutcomes == {pool.tasks[i].outcome : i \in Finished_tasks(pool)}

\* C30 as stated: process_func runs once for every item and the tracker is
\* returned only after all tasks have finished; no exception raised by a
\* task reaches the caller or keeps another task from finishing.
C30_NoTaskExceptionReachesTheCaller ==
    /\ pool.pc \in {"returned", "raised"} => AllTasksRan
    /\ pool.pc = "returned" => pool.result = "tracker"
    /\ pool.pc \notin {"shutdown", "raised"}

\* C30 amended: as above for the exceptions that are an Exception; a task
\* exception that is only a BaseException reaches the caller, after every
\* task has finished.
C30_TaskExceptionsAreSwallowed ==
    /\ pool.pc \in {"returned", "raised"} => AllTasksRan
    /\ pool.pc = "returned" => pool.result = "tracker"
    /\ pool.pc \in {"shutdown", "raised"} => "BaseException" \in TaskOutcomes

\* C30 witness: three items; the task of the first raised an Exception and
\* left its item as being processed, the second completed, the third
\* existed already, and the tracker was returned.
C30_Witness ==
    /\ pool.pc = "returned"
    /\ Len(pool.items) = 3
    /\ pool.tasks[1].outcome = "Exception"
    /\ pool.tasks[2].outcome = "completed"
    /\ pool.tasks[3].outcome = "existing"
    /\ completed_count(tracker) = 1
    /\ processing_count(tracker) = 1

----------------------------------------------------------------------------
(* Claims on the schema cache under threads *)

\* The complete cache entry of a source: what one describe of it gives.
CompleteEntry == describe_entry(DescribeFull)

\* The cache in which `source` has its complete entry.
CompleteCache(source) ==
    [facets |-> Put(EmptyDict, source, CompleteEntry.facets),
     filters |-> Put(EmptyDict, source, CompleteEntry.filters),
     metrics |-> Put(EmptyDict, source, CompleteEntry.metrics)]

\* C24: a validator that found the source cached has checked its metrics
\* against the complete entry: metrics that the complete entry rejects are
\* rejected; and when no thread is populating, a cached source has the
\* entry that one describe gives.
C24_CachedEntryIsComplete ==
    /\ \A t \in CheckerThreads :
          LET f == checkers[t]
          IN  f.pc = "done" /\ f.found_cached
              /\ metrics_verdict(Run(CompleteCache(f.source)), f.source, f.metrics_str).raised
                  => f.raised
    /\ \A source \in DOMAIN dimensions_valid_fields_cache.facets :
          (\A t \in CheckerThreads : checkers[t].pc \in {"idle", "done"})
              => /\ source \in DOMAIN dimensions_valid_fields_cache.metrics
                 /\ dimensions_valid_fields_cache.facets[source] = CompleteEntry.facets
                 /\ dimensions_valid_fields_cache.filters[source] = CompleteEntry.filters
                 /\ dimensions_valid_fields_cache.metrics[source] = CompleteEntry.metrics

----------------------------------------------------------------------------
(* Claims on the pagination loops *)

\* The target of a retrieval: the minimum of the total that the first page
\* reported (0 when it reported none) and the ceiling.
TargetOf(f, server) ==
    Target(IF server.first_total = None THEN 0 ELSE server.first_total, f.max_results)

EffectiveTarget == TargetOf(qi, dsl_server)

\* The n-th request asks for min(batch size, API_LIMIT) records and skips
\* n-1 times as many.
OffsetRequests ==
    \A n \in 1..Len(qi.requests) :
        /\ qi.requests[n].limit = Min(qi.batch_size_arg, API_LIMIT)
        /\ qi.requests[n].skip = (n - 1) * qi.requests[n].limit

\* The loop goes on after a page only when no page failed or was empty, the
\* last page was full, and the records so far are fewer than `target` and
\* fewer than the ceiling.
GoesOnBelow(target) ==
    (qi.pc = "loop" /\ qi.page_num >= 1) =>
        /\ Len(qi.all_results) = qi.page_num
        /\ qi.all_results[Len(qi.all_results)].n = qi.batch_size
        /\ Count(qi.all_results) < target
        /\ qi.max_results /= None => Count(qi.all_results) < qi.max_results

\* C25: in offset mode the n-th request has limit = min(batch size, 1000)
\* and skip = (n-1) * limit, and no page is requested once the records
\* reached the effective target or the ceiling, or a page was short, empty
\* or failed.
C25_OffsetLoopStops == OffsetRequests /\ GoesOnBelow(EffectiveTarget)

\* The same for the calls whose ceiling is not zero.
C25_NonZeroCeiling == qi.max_results /= 0 => C25_OffsetLoopStops

----------------------------------------------------------------------------
(* Claims on the cleaned table *)

\* The shape of a value: a non-empty list, a non-empty dict, a scalar that
\* is not '', or none of these.
ShapeOf(val) ==
    IF NonEmptyList(val) THEN "list"
    ELSE IF NonEmptyDict(val) THEN "dict"
    ELSE IF val.kind \in {"str", "int"} /\ val /= EmptyStr THEN "primitive"
    ELSE "empty"

\* C26: the cleaned copy of an object column with a non-null value holds
\* only None and values of the column's dominant shape, so no '', [] or {};
\* a column without a non-null value and a column of another dtype are
\* returned as they are.
C26_OneShapePerColumn ==
    saved.pc /= "idle" =>
        /\ Len(saved.df_clean) = Len(saved.df)
        /\ IF dtype(saved.df) /= "object" \/ dropna(saved.df) = <<>>
           THEN saved.df_clean = saved.df
           ELSE \A i \in DOMAIN saved.df_clean :
                   \/ saved.df_clean[i] = Null
                   \/ ShapeOf(saved.df_clean[i]) = saved.dominant

\* A column of eight lists, two dicts, two scalars, a None and a '' has
\* been cleaned: the lists are kept, the other values are None.
C26_Witness ==
    /\ saved.pc = "returned"
    /\ saved.via = "search"
    /\ ShapeCount(saved.df, "list") = MaxShape
    /\ ShapeCount(saved.df, "dict") = 2
    /\ ShapeCount(saved.df, "primitive") = 2
    /\ \E i \in DOMAIN saved.df : saved.df[i] = EmptyStr
    /\ saved.dominant = "list"
    /\ ShapeCount(saved.df_clean, "list") = MaxShape
    /\ \A i \in DOMAIN saved.df : ShapeOf(saved.df[i]) /= "list" => saved.df_clean[i] = Null

\* Columns that were passed over: all None, or numbers.
SkippedAllNull == saved.pc = "returned" /\ saved.df = <<Null, Null>>
SkippedNumbers == saved.pc = "returned" /\ saved.df = <<Num, Null>>

\* C27: a retrieval makes at most target + 1 page requests, the target
\* being the one fixed by the first page that was read; a retrieval whose
\* first request failed has made one request.
C27_RequestsBoundedByTarget ==
    \A m \in Modes :
        LET f == m[1]
            server == m[2]
        IN  Len(f.requests) <= (IF server.served = <<>> THEN 0 ELSE TargetOf(f, server)) + 1

\* The bound with the total_count that the loop compares with: every page
\* after which the loop goes on added a record and left the records below
\* total_count.
RequestsBoundedByTotalCount ==
    \A m \in Modes :
        LET f == m[1] IN
        /\ Len(f.requests) = f.page_num
        /\ Len(f.requests) <= (IF f.total_count = None THEN 0 ELSE f.total_count) + 1
        /\ (f.pc = "loop" /\ f.page_num >= 1) =>
               /\ Len(f.all_results) = f.page_num
               /\ \A i \in DOMAIN f.all_results : f.all_results[i].n >= 1
               /\ Count(f.all_results) < f.total_count
====
